---- MODULE Spec2Model ----
(***************************************************************************)
(* Model of the checkpoint-and-resume pipeline of crawlAgent:               *)
(*   src/utils/checkpoint.py   CheckpointManager (the artifact store)       *)
(*   src/config/settings.py    Settings.get_next_flow_id / get_flow_output_dir *)
(*   src/main.py               HTMLAgentSystem._process_html_files          *)
(*   src/agents/code_generator.py  CodeGeneratorAgent.generate_extraction_code *)
(*                                                                          *)
(* The output root is a sequence of flow slots (fs[i] is flow<i>).  A run   *)
(* of _process_html_files is a chain of actions, one per step of the        *)
(* method; every action takes the outcome of its collaborator call and of   *)
(* its file writes from a small set (success, exception, persistence error, *)
(* process kill).  Values produced by a collaborator in run r are           *)
(* represented by the number r, so outputs of different runs differ.        *)
(***************************************************************************)
EXTENDS Integers, Sequences, FiniteSets, TLC

\* ------------------------------------------------------------------ bounds
MaxRuns == 2      \* number of pipeline invocations against the same root
MaxFaults == 1    \* number of non-success outcomes and of removed directories over all invocations
MaxTail == 2      \* characters after the first four of a name in OUTPUT_DIR
MaxInputRuns == 1 \* invocations of process_input on an arbitrary input
MaxDocs == 1      \* documents, URLs in an input
MaxSpread == 2    \* files handed to the generated code by one executor call
MaxLines == 2     \* lines of a converter code
MaxSaves == 2     \* calls of save_step_result on one directory
MaxStages == 2    \* stages each of two concurrent processes runs

\* ------------------------------------------------------------------ values
None == 0         \* Python None / JSON null / a key that is not in data
EmptyList == -1   \* the empty list [] stored for visual_results

\* the dict {"error": str(e)} an agent returns in place of its result when its
\* API call failed in run r
ErrorPayload(r) == -1 - r

IsErrorPayload(v) == v < EmptyList

NoCode == [gen |-> 0, fallback |-> FALSE, validated |-> "no"]

\* text returned by a successful code-generation call in run r
GeneratedCode(r) == [gen |-> r, fallback |-> FALSE, validated |-> "no"]

\* text returned by _generate_fallback_code in run r
FallbackCode(r) == [gen |-> r, fallback |-> TRUE, validated |-> "no"]

\* step 6 rewrites the code: the AI-fixed code, or the code with the
\* validation marker comment inserted
ValidatedCode(c, fixed) == [c EXCEPT !.validated = IF fixed THEN "fixed" ELSE "marked"]

DataKeys == {"analysis_results", "visual_results", "synthesized", "schema",
             "code", "validation", "content_analysis", "markdown_converter_code"}

Missing(k) == IF k = "code" THEN NoCode ELSE None

NoData == [k \in DataKeys |-> Missing(k)]

\* mutant: the dict passed to save_checkpoint holds no value
DataOf_Nothing(keys, src) == NoData

\* the dict literal passed to save_checkpoint: the named keys of src
DataOf(keys, src) == [k \in DataKeys |-> IF k \in keys THEN src[k] ELSE Missing(k)]

\* ------------------------------------------------------- checkpoint files
\* kind: "none" no checkpoint.json, "partial" a truncated file, "ok" a
\* complete record
NoCkpt == [kind |-> "none", step |-> "", ts |-> 0, keys |-> {}, data |-> NoData,
           failed |-> "none", error |-> ""]

\* a file that open(path, 'w') truncated and json.dump did not finish: a
\* prefix of the record being written
Truncated(new) == [new EXCEPT !.kind = "partial"]

\* mutant: the dict passed to save_checkpoint has no visual_results entry
Checkpoint_NoVisual(step, ts, keys, src, failed) ==
    [kind |-> "ok", step |-> step, ts |-> ts, keys |-> keys \ {"visual_results"},
     data |-> DataOf(keys \ {"visual_results"}, src), failed |-> failed, error |-> ""]

\* the record save_checkpoint(step, data) writes: step, timestamp, data
Checkpoint(step, ts, keys, src, failed) ==
    [kind |-> "ok", step |-> step, ts |-> ts, keys |-> keys,
     data |-> DataOf(keys, src), failed |-> failed, error |-> ""]

\* the entry "error": f"...: {str(e)}" of the dict passed to save_checkpoint
WithError(ck, message) == [ck EXCEPT !.error = message]

\* mutant: a lenient decoder accepts the prefix of a record as the record
load_checkpoint_lenient(file) ==
    IF file.kind = "none" THEN NoCkpt ELSE [file EXCEPT !.kind = "ok"]

\* CheckpointManager.load_checkpoint: None when the file is missing or when
\* json.load raises on it
load_checkpoint(file) == IF file.kind = "ok" THEN file ELSE NoCkpt

\* dict.get(key) and dict.get(key, default) on checkpoint['data']
Get(ck, k) == IF k \in ck.keys THEN ck.data[k] ELSE Missing(k)

GetDefault(ck, k, default) == IF k \in ck.keys THEN ck.data[k] ELSE default

\* CheckpointManager.save_checkpoint under write outcome w:
\*   "ok"          the file holds the new record
\*   "open_fail"   open() raised, the exception is swallowed, the file is as before
\*   "write_fail"  open() truncated the file and json.dump raised: swallowed
\*   "killed"      the process died between open() and the end of json.dump
save_checkpoint(old, new, w) ==
    CASE w = "ok" -> new
      [] w = "open_fail" -> old
      [] OTHER -> Truncated(new)

\* ------------------------------------------------------------- flow slots
NoSlot == [dir |-> FALSE, ckpt |-> NoCkpt, step_result |-> None, schema_file |-> None,
           code_file |-> NoCode, extraction_results |-> 0, intermediate |-> ""]

Max(S) == CHOOSE x \in S : \A y \in S : y <= x

FlowIds(f) == {i \in 1..Len(f) : f[i].dir}

\* mutant: the increment is off by one
get_next_flow_id_SkipOne(f) == IF FlowIds(f) = {} THEN 1 ELSE Max(FlowIds(f)) + 2

\* Settings.get_next_flow_id
get_next_flow_id(f) == IF FlowIds(f) = {} THEN 1 ELSE Max(FlowIds(f)) + 1

\* Settings.get_flow_output_dir: mkdir(parents=True, exist_ok=True)
get_flow_output_dir(f, id) ==
    [i \in 1..(IF id > Len(f) THEN id ELSE Len(f)) |->
        IF i = id THEN (IF i <= Len(f) THEN [f[i] EXCEPT !.dir = TRUE]
                                       ELSE [NoSlot EXCEPT !.dir = TRUE])
        ELSE IF i <= Len(f) THEN f[i] ELSE NoSlot]

\* ------------------------------------------- the listing of OUTPUT_DIR
\* An entry of OUTPUT_DIR: head is name[:4], tail is name[4:].
NameChars == {"0", "1", "2", "-", "+", "x"}

Tails == UNION {[1..n -> NameChars] : n \in 0..MaxTail}

Entries == [head : {"flow", "data"}, tail : Tails, is_dir : BOOLEAN]

NoRoot == [exists |-> FALSE, entries |-> {}]

\* OUTPUT_DIR holding the given entries
RootOf(entries) == [exists |-> TRUE, entries |-> entries]

IsDigit(c) == c \in {"0", "1", "2", "3", "4", "5", "6", "7", "8", "9"}

DigitOf(c) ==
    CASE c = "0" -> 0 [] c = "1" -> 1 [] c = "2" -> 2 [] c = "3" -> 3 [] c = "4" -> 4
      [] c = "5" -> 5 [] c = "6" -> 6 [] c = "7" -> 7 [] c = "8" -> 8 [] c = "9" -> 9

RECURSIVE DigitsValue(_)
DigitsValue(t) ==
    IF t = <<>> THEN 0
    ELSE DigitsValue(SubSeq(t, 1, Len(t) - 1)) * 10 + DigitOf(t[Len(t)])

\* int(item.name[4:]): an optional sign and at least one digit, otherwise
\* ValueError (ok = FALSE); blanks and underscores are not in NameChars
ParseInt(t) ==
    LET negative == t # <<>> /\ t[1] = "-"
        signed == t # <<>> /\ t[1] \in {"-", "+"}
        body == IF signed THEN Tail(t) ELSE t
        ok == body # <<>> /\ \A i \in 1..Len(body) : IsDigit(body[i])
    IN [ok |-> ok,
        val |-> IF ok THEN (IF negative THEN 0 - DigitsValue(body) ELSE DigitsValue(body))
                ELSE 0]

\* mutant: the is_dir() test is missing
existing_flows_AnyEntry(listing) ==
    {ParseInt(e.tail).val : e \in {x \in listing : x.head = "flow" /\ ParseInt(x.tail).ok}}

\* the list existing_flows that the loop over OUTPUT_DIR.iterdir() collects
existing_flows(listing) ==
    {ParseInt(e.tail).val :
        e \in {x \in listing : x.is_dir /\ x.head = "flow" /\ ParseInt(x.tail).ok}}

\* Settings.get_next_flow_id on a listing of OUTPUT_DIR
get_next_flow_id_of(r) ==
    IF ~r.exists THEN 1
    ELSE IF existing_flows(r.entries) = {} THEN 1
    ELSE Max(existing_flows(r.entries)) + 1

\* the slots whose checkpoint a directory scan gets to see
WithCheckpoint(f) == {i \in FlowIds(f) : load_checkpoint(f[i].ckpt).kind = "ok"}

StepOf(f, i) == load_checkpoint(f[i].ckpt).step

\* -------------------------------------------------------- the resume scan
\* the if/elif chain of the "load data from checkpoints in order" loop
ApplyCheckpoint(b, ck) ==
    LET set(keys) == [k \in DataKeys |-> IF k \in keys THEN Get(ck, k) ELSE b[k]]
    IN CASE ck.step = "text_analysis" -> set({"analysis_results"})
         [] ck.step = "visual_analysis" -> set({"visual_results", "analysis_results"})
         [] ck.step = "synthesized" ->
                set({"synthesized", "analysis_results", "visual_results"})
         [] ck.step = "schema" ->
                set({"schema", "synthesized", "analysis_results", "visual_results"})
         [] ck.step = "code_generated" ->
                set({"code", "schema", "synthesized", "analysis_results", "visual_results"})
         [] ck.step \in {"code_validated", "code"} ->
                set({"code", "validation", "schema", "synthesized", "analysis_results",
                     "visual_results"})
         [] OTHER -> b

\* mutant: the checkpoints are folded in descending order of flow_id
RECURSIVE LoadFlows_Descending(_, _, _)
LoadFlows_Descending(f, i, b) ==
    IF i > Len(f) THEN b
    ELSE LET rest == LoadFlows_Descending(f, i + 1, b)
         IN IF i \in WithCheckpoint(f)
            THEN ApplyCheckpoint(rest, load_checkpoint(f[i].ckpt)) ELSE rest

\* existing_flows sorted by flow_id, folded into the local variables
RECURSIVE LoadFlows(_, _, _)
LoadFlows(f, i, b) ==
    IF i > Len(f) THEN b
    ELSE LoadFlows(f, i + 1,
                   IF i \in WithCheckpoint(f)
                   THEN ApplyCheckpoint(b, load_checkpoint(f[i].ckpt)) ELSE b)

StepKeys == {"step1", "step2", "step3", "step4", "step5"}

StepIdentity(k) ==
    CASE k = "step1" -> "text_analysis"
      [] k = "step2" -> "visual_analysis"
      [] k = "step3" -> "synthesized"
      [] k = "step4" -> "schema"
      [] OTHER -> "code"

\* completed_steps: each key is assigned once per matching directory, in the
\* order iterdir() yields them, so it ends as any one of the matching slots
\* (0: the key is not in the dict)
CompletedSteps(f) ==
    LET C(k) == LET m == {i \in WithCheckpoint(f) : StepOf(f, i) = StepIdentity(k)}
                IN IF m = {} THEN {0} ELSE m
    IN {[step1 |-> a, step2 |-> b, step3 |-> c, step4 |-> d, step5 |-> e] :
           a \in C("step1"), b \in C("step2"), c \in C("step3"), d \in C("step4"),
           e \in C("step5")}

\* completed_steps.get(key, default)
FlowOf(cs, k, default) == IF cs[k] = 0 THEN default ELSE cs[k]

\* ------------------------------------------------------------------ state
VARIABLES
    fs,               \* the output root: fs[i] is the directory flow<i>
    pc,               \* position of the running invocation, "idle" between runs
    runNo,            \* number of invocations started
    faults,           \* non-success outcomes taken so far
    use_visual,       \* argument of the running invocation
    resume,           \* argument of the running invocation
    bag,              \* analysis_results, visual_results, synthesized, json_schema,
                      \* extraction_code, validation_result, content_analysis,
                      \* markdown_converter_code
    completed_steps,  \* step key -> flow id (0: absent)
    flow_id,          \* step<N>_flow_id of the running invocation (0: unset)
    result,           \* how the last invocation ended
    executed,         \* history: stages whose work was invoked in this invocation
    startFs,          \* history: the output root when this invocation started
    prev,             \* history: the invocation before this one (how it ended,
                      \* its arguments, the faults counted when it ended)
    raisedAt,         \* history: the stage whose exception ended the invocation
    marker,           \* history: the save of a failure checkpoint in this
                      \* invocation ("none", "saved", "lost")
    lost,             \* history: the steps of this invocation whose
                      \* save_checkpoint of the terminal checkpoint failed
    root,             \* the listing of OUTPUT_DIR handed to get_next_flow_id
    next_id,          \* what get_next_flow_id returned for it
    input,            \* the input path handed to process_input
    html_files,       \* number of documents handed to _process_html_files
    loader,           \* the executor of generated code: its position, the
                      \* module it loaded, what it invoked, wrote and returned
    store,            \* the step-result files of one CheckpointManager directory
    deleted,          \* history: the slots whose directory was removed by hand
    codegen,          \* one call of generate_extraction_code: its position, its
                      \* loop variables, the calls made, the waits, the return
    convert,          \* the syntax-validation loop of step 7 on one converter code
    procs             \* two pipeline processes allocating a slot in one output root

vars == <<fs, pc, runNo, faults, use_visual, resume, bag, completed_steps, flow_id,
          result, executed, startFs, prev, raisedAt, marker, lost,
          root, next_id, input, html_files, loader, store, deleted, codegen, convert, procs>>

Stages == {"step1", "step2", "step3", "step4", "step5", "step6", "step7"}

NoFlowIds == [s \in Stages |-> 0]

NoCompleted == [k \in StepKeys |-> 0]

NoPrev == [result |-> "none", raisedAt |-> "none", resume |-> FALSE,
           use_visual |-> FALSE, marker |-> "none", fromEmpty |-> TRUE, faults |-> 0,
           lost |-> {}]

NotCalled == [called |-> FALSE, id |-> 0]

NoInput == [kind |-> "none", html |-> 0, urls |-> 0, cached |-> "none", fetched |-> 0]

\* what process_input can be handed: a path that does not exist, a directory
\* with html *.html files it can read, or a URL list file with urls valid
\* lines; for a URL list, cached says whether OUTPUT_DIR/downloaded_html is
\* missing or empty ("none"), holds entries of which load_html_files reads
\* none ("no_html"), or holds HTML files ("html"), and fetched is the number of
\* URLs download_multiple_urls gets
Inputs ==
    {i \in [kind : {"missing", "dir", "url_file"}, html : 0..MaxDocs, urls : 0..MaxDocs,
            cached : {"none", "no_html", "html"}, fetched : 0..MaxDocs] :
        /\ i.kind # "dir" => i.html = 0
        /\ i.kind # "url_file" \/ i.urls = 0 => i.cached = "none" /\ i.fetched = 0
        /\ i.kind # "url_file" => i.urls = 0
        /\ i.fetched <= i.urls}

\* the executor of generated code before it is called
NoLoader == [pc |-> "idle", kind |-> "none", mod |-> "none", docs |-> <<>>,
             passed |-> {}, calls |-> <<>>, results_dir |-> FALSE, files |-> {},
             processed |-> 0, failed |-> 0, summary |-> FALSE, error |-> "",
             ret |-> "pending", log |-> "none",
             total_files |-> 0, results_summary |-> <<>>]

\* the step-result files of a new directory: none; no call made yet
NoStore == [files |-> <<>>, saves |-> 0,
            saved |-> [name |-> "", filename |-> "", ok |-> FALSE,
                       value |-> [type |-> "none", body |-> ""]],
            answer |-> [op |-> "none", name |-> "", filename |-> "",
                        value |-> [type |-> "none", body |-> ""]]]

\* generate_extraction_code not called yet
NoCodegen == [pc |-> "idle", client_type |-> "none", attempt |-> 0, retry_delay |-> 0,
              calls |-> <<>>, slept |-> <<>>, ret |-> "pending"]

\* the syntax-validation loop of step 7 not entered yet
NoConverterCode == [origin |-> "none", lines |-> <<>>, nul |-> FALSE]

NoConvert == [pc |-> "idle", retry_count |-> 0, markdown_converter_code |-> NoConverterCode,
              compiled |-> <<>>, fixes |-> 0, regenerations |-> 0,
              file |-> NoConverterCode, checkpoint |-> NoConverterCode]

\* the pipeline processes that run concurrently against one output root
Procs == {1, 2}

\* two processes about to start their first stage on an empty output root;
\* writes is the history of the checkpoint writes, in the order they landed
NoProcs == [root |-> <<>>,
            pc |-> [p \in Procs |-> "get_next_flow_id"],
            stage |-> [p \in Procs |-> 1],
            flow_id |-> [p \in Procs |-> 0],
            listing |-> [p \in Procs |-> {}],
            writes |-> <<>>]

\* the pipeline before the first invocation: an empty output root
InitPipeline ==
    /\ loader = NoLoader
    /\ store = NoStore
    /\ deleted = {}
    /\ codegen = NoCodegen
    /\ convert = NoConvert
    /\ procs = NoProcs
    /\ fs = <<>>
    /\ pc = "idle"
    /\ runNo = 0
    /\ faults = 0
    /\ use_visual = FALSE
    /\ resume = FALSE
    /\ bag = NoData
    /\ completed_steps = NoCompleted
    /\ flow_id = NoFlowIds
    /\ result = "none"
    /\ executed = {}
    /\ startFs = <<>>
    /\ prev = NoPrev
    /\ raisedAt = "none"
    /\ marker = "none"
    /\ lost = {}

Init ==
    /\ InitPipeline
    /\ root = NoRoot
    /\ next_id = NotCalled
    /\ input = NoInput
    /\ html_files = 0

\* entry of _process_html_files with n documents: locals initialised to None
EnterPipeline(v, r, n) ==
    /\ pc = "idle"
    /\ runNo < MaxRuns
    /\ runNo' = runNo + 1
    /\ use_visual' = v
    /\ resume' = r
    /\ bag' = NoData
    /\ completed_steps' = NoCompleted
    /\ flow_id' = NoFlowIds
    /\ executed' = {}
    /\ startFs' = fs
    /\ prev' = [result |-> result, raisedAt |-> raisedAt, resume |-> resume,
                use_visual |-> use_visual, marker |-> marker,
                fromEmpty |-> (startFs = <<>>), faults |-> faults,
                lost |-> lost]
    /\ result' = "running"
    /\ raisedAt' = "none"
    /\ marker' = "none"
    /\ lost' = {}
    /\ pc' = "scan"
    /\ html_files' = n
    /\ UNCHANGED <<fs, faults, root, next_id, loader, store, deleted, codegen, convert, procs>>

\* main() -> process_input -> _process_html_files on a batch of documents
StartRun(v, r) ==
    /\ EnterPipeline(v, r, 1)
    /\ UNCHANGED input

\* mutant: the resume scan maps the steps and loads nothing
ResumeScan_LoadsNothing ==
    /\ pc = "scan"
    /\ IF resume
       THEN /\ completed_steps' \in CompletedSteps(fs)
            /\ UNCHANGED bag
       ELSE UNCHANGED <<completed_steps, bag>>
    /\ pc' = "s1"
    /\ UNCHANGED <<fs, runNo, faults, lost, use_visual, resume, flow_id, result, executed,
                   startFs, prev, root, next_id, input, html_files, loader, store, deleted, codegen, convert, procs, raisedAt, marker>>

\* the resume block at the head of _process_html_files
ResumeScan ==
    /\ pc = "scan"
    /\ IF resume
       THEN /\ completed_steps' \in CompletedSteps(fs)
            /\ bag' = LoadFlows(fs, 1, bag)
       ELSE UNCHANGED <<completed_steps, bag>>
    /\ pc' = "s1"
    /\ UNCHANGED <<fs, runNo, faults, lost, use_visual, resume, flow_id, result, executed,
                   startFs, prev, root, next_id, input, html_files, loader, store, deleted, codegen, convert, procs, raisedAt, marker>>

\* ------------------------------------------------------------- outcomes
\* what can happen while a step executes and persists its output
PersistOutcomes == {"ok", "open_fail", "write_fail", "kill_in_work", "kill_mid_ckpt"}

Killed(o) == o \in {"kill_in_work", "kill_mid_ckpt"}

\* mutant: every save_checkpoint call fails to open the file
WriteOutcome_NeverOpens(o) == "open_fail"

\* the outcome of the save_checkpoint call under step outcome o
WriteOutcome(o) ==
    CASE o = "kill_mid_ckpt" -> "killed"
      [] o \in {"open_fail", "write_fail"} -> o
      [] OTHER -> "ok"

\* the step the invocation is at
StageAt ==
    CASE pc = "s1" -> "step1" [] pc = "s2" -> "step2" [] pc = "s3" -> "step3"
      [] pc = "s4" -> "step4" [] pc = "s5" -> "step5" [] pc = "s6" -> "step6"
      [] pc = "s7" -> "step7" [] OTHER -> "none"

Budget(o) ==
    /\ o = "ok" \/ faults < MaxFaults
    /\ faults' = IF o = "ok" THEN faults ELSE faults + 1
    /\ lost' = IF o \in {"open_fail", "write_fail"} THEN lost \cup {StageAt} ELSE lost

\* mutant: the invocation stays at the step it is at
Goto_Stays(next) ==
    /\ pc' = pc
    /\ UNCHANGED <<result, raisedAt>>

\* the invocation goes on to the next step
Goto(next) ==
    /\ pc' = next
    /\ UNCHANGED <<result, raisedAt>>

\* history of the failure checkpoint saved under outcome o
Marked(o) ==
    marker' = CASE o = "raise" -> "saved"
                [] o \in {"raise_open_fail", "raise_write_fail"} -> "lost"
                [] OTHER -> marker

\* the invocation ends: killed, or an exception leaves _process_html_files
\* (main does not catch it: the process exits with a traceback), or it returns
EndRun(how, stage) ==
    /\ pc' = "idle"
    /\ result' = how
    /\ raisedAt' = stage

\* visual_results if use_visual else []
BagOut(b) == [b EXCEPT !.visual_results = IF use_visual THEN @ ELSE EmptyList]

\* mutant: the step saves its result file and no checkpoint
PersistStep_NoCheckpoint(f, id, value, step, keys, src, o) ==
    IF o = "kill_in_work" THEN f
    ELSE [f EXCEPT ![id] = [@ EXCEPT !.step_result = value]]

\* save_step_result followed by save_checkpoint in the slot of a step that
\* has just produced its output (steps 1 to 4)
PersistStep(f, id, value, step, keys, src, o) ==
    IF o = "kill_in_work" THEN f
    ELSE [f EXCEPT ![id] =
            [@ EXCEPT !.step_result = value,
                      !.ckpt = save_checkpoint(@, Checkpoint(step, runNo, keys, src, "none"),
                                               WriteOutcome(o))]]

\* Step 1: text analysis.  AnalyzerAgent.analyze_html_structure catches every
\* exception of the API call and returns an error dict ("api_fail"), so the
\* step has no raising outcome.
Step1(o) ==
    /\ pc = "s1"
    /\ IF bag.analysis_results # None
       THEN LET id == FlowOf(completed_steps, "step1", 1)
            IN /\ o = "ok"
               /\ fs' = get_flow_output_dir(fs, id)
               /\ flow_id' = [flow_id EXCEPT !["step1"] = id]
               /\ Goto("s2")
               /\ UNCHANGED <<bag, executed, faults, lost>>
       ELSE LET id == get_next_flow_id(fs)
                f1 == get_flow_output_dir(fs, id)
            IN /\ flow_id' = [flow_id EXCEPT !["step1"] = id]
               /\ IF f1[id].step_result # None
                  THEN LET ck == load_checkpoint(f1[id].ckpt)
                       IN /\ o = "ok"
                          /\ bag' = [bag EXCEPT !.analysis_results =
                                       IF ck.kind = "ok" /\ ck.step = "text_analysis"
                                       THEN GetDefault(ck, "analysis_results",
                                                       f1[id].step_result)
                                       ELSE f1[id].step_result]
                          /\ fs' = f1
                          /\ Goto("s2")
                          /\ UNCHANGED <<executed, faults, lost>>
                  ELSE LET value == IF o = "api_fail" THEN ErrorPayload(runNo) ELSE runNo
                           b1 == [bag EXCEPT !.analysis_results = value]
                       IN /\ o \in PersistOutcomes \cup {"api_fail"}
                          /\ Budget(o)
                          /\ executed' = executed \cup {"step1"}
                          /\ bag' = b1
                          /\ fs' = PersistStep(f1, id, value, "text_analysis",
                                               {"analysis_results"}, b1, o)
                          /\ IF Killed(o) THEN EndRun("killed", "none") ELSE Goto("s2")
    /\ UNCHANGED <<runNo, use_visual, resume, completed_steps, startFs, prev, root, next_id, input, html_files, loader, store, deleted, codegen, convert, procs, marker>>

\* Step 2: visual analysis, only when use_visual.
\* VisualAnalyzer.analyze_html_visually catches every exception.
Step2(o) ==
    /\ pc = "s2"
    /\ IF ~use_visual
       THEN /\ o = "ok"
            /\ bag' = [bag EXCEPT !.visual_results = EmptyList]
            /\ Goto("s3")
            /\ UNCHANGED <<fs, flow_id, executed, faults, lost>>
       ELSE IF bag.visual_results # None
       THEN LET id == FlowOf(completed_steps, "step2", 2)
            IN /\ o = "ok"
               /\ fs' = get_flow_output_dir(fs, id)
               /\ flow_id' = [flow_id EXCEPT !["step2"] = id]
               /\ Goto("s3")
               /\ UNCHANGED <<bag, executed, faults, lost>>
       ELSE LET id == get_next_flow_id(fs)
                f1 == get_flow_output_dir(fs, id)
            IN /\ flow_id' = [flow_id EXCEPT !["step2"] = id]
               /\ IF f1[id].step_result # None
                  THEN LET ck == load_checkpoint(f1[id].ckpt)
                           hit == ck.kind = "ok" /\ ck.step = "visual_analysis"
                       IN /\ o = "ok"
                          /\ bag' = [bag EXCEPT
                                 !.visual_results =
                                     IF hit THEN GetDefault(ck, "visual_results",
                                                            f1[id].step_result)
                                     ELSE f1[id].step_result,
                                 !.analysis_results =
                                     IF hit THEN GetDefault(ck, "analysis_results", @)
                                     ELSE @]
                          /\ fs' = f1
                          /\ Goto("s3")
                          /\ UNCHANGED <<executed, faults, lost>>
                  ELSE LET b1 == [bag EXCEPT !.visual_results = runNo]
                       IN /\ o \in PersistOutcomes
                          /\ Budget(o)
                          /\ executed' = executed \cup {"step2"}
                          /\ bag' = b1
                          /\ fs' = PersistStep(f1, id, runNo, "visual_analysis",
                                               {"analysis_results", "visual_results"}, b1, o)
                          /\ IF Killed(o) THEN EndRun("killed", "none") ELSE Goto("s3")
    /\ UNCHANGED <<runNo, use_visual, resume, completed_steps, startFs, prev, root, next_id, input, html_files, loader, store, deleted, codegen, convert, procs, marker>>

\* Step 3: synthesis.  Orchestrator.coordinate_analysis calls the API outside
\* any try block and the step has no except clause: outcome "raise" leaves
\* _process_html_files with nothing written in the slot.
Step3(o) ==
    /\ pc = "s3"
    /\ IF bag.synthesized # None
       THEN LET id == FlowOf(completed_steps, "step3", 3)
            IN /\ o = "ok"
               /\ fs' = get_flow_output_dir(fs, id)
               /\ flow_id' = [flow_id EXCEPT !["step3"] = id]
               /\ Goto("s4")
               /\ UNCHANGED <<bag, executed, faults, lost>>
       ELSE LET id == get_next_flow_id(fs)
                f1 == get_flow_output_dir(fs, id)
            IN /\ flow_id' = [flow_id EXCEPT !["step3"] = id]
               /\ IF f1[id].step_result # None
                  THEN LET ck == load_checkpoint(f1[id].ckpt)
                           hit == ck.kind = "ok" /\ ck.step = "synthesized"
                       IN /\ o = "ok"
                          /\ bag' = [bag EXCEPT
                                 !.synthesized =
                                     IF hit THEN GetDefault(ck, "synthesized",
                                                            f1[id].step_result)
                                     ELSE f1[id].step_result,
                                 !.analysis_results =
                                     IF hit THEN GetDefault(ck, "analysis_results", @)
                                     ELSE @,
                                 !.visual_results =
                                     IF hit THEN GetDefault(ck, "visual_results", @)
                                     ELSE @]
                          /\ fs' = f1
                          /\ Goto("s4")
                          /\ UNCHANGED <<executed, faults, lost>>
                  ELSE LET b1 == [bag EXCEPT !.synthesized = runNo]
                       IN /\ o \in PersistOutcomes \cup {"raise"}
                          /\ Budget(o)
                          /\ executed' = executed \cup {"step3"}
                          /\ IF o = "raise"
                             THEN /\ bag' = bag
                                  /\ fs' = f1
                                  /\ EndRun("raised", "step3")
                             ELSE /\ bag' = b1
                                  /\ fs' = PersistStep(f1, id, runNo, "synthesized",
                                         {"analysis_results", "visual_results",
                                          "synthesized"}, BagOut(b1), o)
                                  /\ IF Killed(o) THEN EndRun("killed", "none")
                                     ELSE Goto("s4")
    /\ UNCHANGED <<runNo, use_visual, resume, completed_steps, startFs, prev, root, next_id, input, html_files, loader, store, deleted, codegen, convert, procs, marker>>

\* Step 4: schema generation.  Orchestrator.generate_final_schema catches the
\* API errors; open(schema_path, 'w') and json.dump are outside any try block:
\* outcome "raise" is an I/O error there, before anything is saved.
Step4(o) ==
    /\ pc = "s4"
    /\ IF bag.schema # None
       THEN LET id == FlowOf(completed_steps, "step4", 4)
            IN /\ o = "ok"
               /\ fs' = get_flow_output_dir(fs, id)
               /\ flow_id' = [flow_id EXCEPT !["step4"] = id]
               /\ Goto("s5")
               /\ UNCHANGED <<bag, executed, faults, lost>>
       ELSE LET id == get_next_flow_id(fs)
                f1 == get_flow_output_dir(fs, id)
            IN /\ flow_id' = [flow_id EXCEPT !["step4"] = id]
               /\ IF f1[id].step_result # None \/ f1[id].schema_file # None
                  THEN LET ck == load_checkpoint(f1[id].ckpt)
                           hit == ck.kind = "ok" /\ ck.step = "schema"
                           cached == IF f1[id].step_result # None
                                     THEN f1[id].step_result ELSE f1[id].schema_file
                       IN /\ o = "ok"
                          /\ bag' = [bag EXCEPT
                                 !.schema =
                                     IF hit THEN GetDefault(ck, "schema", cached)
                                     ELSE cached,
                                 !.synthesized =
                                     IF hit THEN GetDefault(ck, "synthesized", @) ELSE @,
                                 !.analysis_results =
                                     IF hit THEN GetDefault(ck, "analysis_results", @)
                                     ELSE @,
                                 !.visual_results =
                                     IF hit THEN GetDefault(ck, "visual_results", @)
                                     ELSE @]
                          /\ fs' = f1
                          /\ Goto("s5")
                          /\ UNCHANGED <<executed, faults, lost>>
                  ELSE LET value == IF o = "api_fail" THEN ErrorPayload(runNo) ELSE runNo
                           b1 == [bag EXCEPT !.schema = value]
                           f2 == [f1 EXCEPT ![id].schema_file = value]
                       IN /\ o \in PersistOutcomes \cup {"raise", "api_fail"}
                          /\ Budget(o)
                          /\ executed' = executed \cup {"step4"}
                          /\ IF o = "raise"
                             THEN /\ bag' = b1
                                  /\ fs' = f1
                                  /\ EndRun("raised", "step4")
                             ELSE /\ bag' = b1
                                  /\ fs' = PersistStep(IF o = "kill_in_work" THEN f1 ELSE f2,
                                         id, value, "schema",
                                         {"analysis_results", "visual_results",
                                          "synthesized", "schema"}, BagOut(b1), o)
                                  /\ IF Killed(o) THEN EndRun("killed", "none")
                                     ELSE Goto("s5")
    /\ UNCHANGED <<runNo, use_visual, resume, completed_steps, startFs, prev, root, next_id, input, html_files, loader, store, deleted, codegen, convert, procs, marker>>

\* the checkpoint a failing step leaves behind, written under outcome o of
\* the step: "raise" the marker is saved, "raise_open_fail" and
\* "raise_write_fail" the save of the marker fails as well
MarkerOutcome(o) ==
    CASE o = "raise_open_fail" -> "open_fail"
      [] o = "raise_write_fail" -> "write_fail"
      [] OTHER -> "ok"

Raises(o) == o \in {"raise", "raise_open_fail", "raise_write_fail"}

\* mutant: the except clause records the stage's own identity
Step5FailureCheckpoint_Terminal(ts, src) ==
    WithError(Checkpoint("code_generated", ts,
                         {"analysis_results", "visual_results", "synthesized", "schema"},
                         src, "code_generation_failed"),
              "Code generation failed")

\* step 5 except clause: save_checkpoint("schema", {..., "error": ...,
\* "code_generation_failed": True})
Step5FailureCheckpoint(ts, src) ==
    WithError(Checkpoint("schema", ts,
                         {"analysis_results", "visual_results", "synthesized", "schema"},
                         src, "code_generation_failed"),
              "Code generation failed")

\* mutant: the except clause forgets the failure flag
Step6FailureCheckpoint_NoFlag(ts, src) ==
    WithError(Checkpoint("code_generated", ts,
                         {"analysis_results", "visual_results", "synthesized", "schema",
                          "code"},
                         src, "none"),
              "Code validation failed")

\* step 6 except clause: save_checkpoint("code_generated", {..., "error": ...,
\* "validation_failed": True})
Step6FailureCheckpoint(ts, src) ==
    WithError(Checkpoint("code_generated", ts,
                         {"analysis_results", "visual_results", "synthesized", "schema",
                          "code"},
                         src, "validation_failed"),
              "Code validation failed")

\* mutant: the except clause leaves out the error message
Step7FailureCheckpoint_NoError(ts, src) ==
    Checkpoint("code_validated", ts, {}, src, "markdown_conversion_failed")

\* step 7 except clause: save_checkpoint("code_validated",
\* {"error": ..., "markdown_conversion_failed": True})
Step7FailureCheckpoint(ts, src) ==
    WithError(Checkpoint("code_validated", ts, {}, src, "markdown_conversion_failed"),
              "Markdown conversion failed")

\* Step 5: code generation.  pick is the directory the retry scan meets first.
\* "api_fail": every attempt of generate_extraction_code raised and it returned
\* the fallback template; "raise": an exception reaches the except clause of
\* step 5 (open(code_path, 'w') or the prompt construction failed).
\* mutant: the scan accepts a schema checkpoint without the failure flag
IncompleteStep5Flows_AnySchema(f) ==
    {i \in WithCheckpoint(f) : StepOf(f, i) = "schema"}

\* mutant: the scan for an incomplete step 5 slot finds nothing
IncompleteStep5Flows_None(f) == {}

\* the slots the "existing incomplete flow5 directory" scan accepts: step
\* "schema" with code_generation_failed set
IncompleteStep5Flows(f) ==
    {i \in WithCheckpoint(f) :
        /\ StepOf(f, i) = "schema"
        /\ load_checkpoint(f[i].ckpt).failed = "code_generation_failed"}

Step5(o, pick) ==
    /\ pc = "s5"
    /\ IF bag.code # NoCode
       THEN LET id == FlowOf(completed_steps, "step5", 5)
                f1 == get_flow_output_dir(fs, id)
            IN /\ o = "ok"
               /\ pick = 0
               /\ fs' = f1
               /\ flow_id' = [flow_id EXCEPT !["step5"] = id]
               /\ bag' = IF f1[id].code_file # NoCode
                         THEN [bag EXCEPT !.code = f1[id].code_file] ELSE bag
               /\ Goto("s6")
               /\ UNCHANGED <<executed, faults, lost>>
       ELSE LET incomplete == IncompleteStep5Flows(fs)
                id == IF pick # 0 THEN pick ELSE get_next_flow_id(fs)
                f1 == get_flow_output_dir(fs, id)
                ck == load_checkpoint(f1[id].ckpt)
                done == ck.kind = "ok" /\ ck.step = "code_generated"
                b0 == IF done
                      THEN [bag EXCEPT
                              !.code = Get(ck, "code"),
                              !.schema = GetDefault(ck, "schema", @),
                              !.synthesized = GetDefault(ck, "synthesized", @),
                              !.analysis_results = GetDefault(ck, "analysis_results", @),
                              !.visual_results = GetDefault(ck, "visual_results", @)]
                      ELSE bag
                cached == f1[id].code_file # NoCode /\ done
                c0 == IF cached /\ b0.code = NoCode THEN f1[id].code_file ELSE b0.code
                code_completed == done /\ ~(cached /\ c0.fallback)
            IN /\ IF incomplete = {} THEN pick = 0 ELSE pick \in incomplete
               /\ flow_id' = [flow_id EXCEPT !["step5"] = id]
               /\ IF code_completed
                  THEN /\ o = "ok"
                       /\ bag' = [b0 EXCEPT !.code = c0]
                       /\ fs' = f1
                       /\ Goto("s6")
                       /\ UNCHANGED <<executed, faults, lost>>
                  ELSE LET code == IF o = "api_fail" THEN FallbackCode(runNo)
                                   ELSE GeneratedCode(runNo)
                           b1 == [b0 EXCEPT !.code = code]
                           bf == [b0 EXCEPT !.code = NoCode]
                       IN /\ o \in PersistOutcomes \cup {"api_fail", "raise",
                                                        "raise_open_fail", "raise_write_fail"}
                          /\ Budget(o)
                          /\ executed' = executed \cup {"step5"}
                          /\ IF Raises(o)
                             THEN /\ bag' = bf
                                  /\ fs' = [f1 EXCEPT ![id] =
                                       [@ EXCEPT !.code_file = NoCode,
                                                 !.ckpt = save_checkpoint(@,
                                                     Step5FailureCheckpoint(runNo, BagOut(bf)),
                                                     MarkerOutcome(o))]]
                                  /\ EndRun("raised", "step5")
                             ELSE /\ bag' = b1
                                  /\ fs' = IF o = "kill_in_work" THEN f1
                                           ELSE [f1 EXCEPT ![id] =
                                       [@ EXCEPT !.code_file = code,
                                                 !.ckpt = save_checkpoint(@,
                                                     Checkpoint("code_generated", runNo,
                                                         {"analysis_results", "visual_results",
                                                          "synthesized", "schema", "code"},
                                                         BagOut(b1), "none"),
                                                     WriteOutcome(o))]]
                                  /\ IF Killed(o) THEN EndRun("killed", "none")
                                     ELSE Goto("s6")
    /\ Marked(o)
    /\ UNCHANGED <<runNo, use_visual, resume, completed_steps, startFs, prev, root, next_id, input, html_files, loader, store, deleted, codegen, convert, procs>>

\* Step 6.5: _execute_extraction_code on the spread directory; x is the
\* number of result files it wrote into <slot>/extraction_results (files an
\* earlier execution left there stay, files of the same name are overwritten)
Execute(f, id, x) ==
    IF f[id].code_file # NoCode
    THEN [f EXCEPT ![id].extraction_results = IF x > @ THEN x ELSE @] ELSE f

\* Step 6: code validation.  pick is the directory the validated-code scan
\* meets first (0: none matches).  how is what step 6 did to the code text
\* before its outcome: "marked", "fixed", or "no" when it failed before.
Step6(o, pick, how, x) ==
    /\ pc = "s6"
    /\ LET found == {i \in WithCheckpoint(fs) :
                        StepOf(fs, i) \in {"code_validated", "code"}}
           ck == IF pick = 0 THEN NoCkpt ELSE load_checkpoint(fs[pick].ckpt)
           validated_code == Get(ck, "code")
           validation_result == Get(ck, "validation")
       IN /\ IF found = {} THEN pick = 0 ELSE pick \in found
          /\ IF validated_code # NoCode /\ validation_result # None
             THEN /\ o = "ok"
                  /\ how = "no"
                  /\ bag' = [bag EXCEPT !.code = validated_code,
                                        !.validation = validation_result]
                  /\ flow_id' = [flow_id EXCEPT !["step6"] = pick]
                  /\ fs' = Execute(get_flow_output_dir(fs, pick), pick, x)
                  /\ Goto("inter")
                  /\ UNCHANGED <<executed, faults, lost>>
             ELSE LET id == get_next_flow_id(fs)
                      f1 == get_flow_output_dir(fs, id)
                      code == IF how = "no" THEN bag.code
                              ELSE ValidatedCode(bag.code, how = "fixed")
                      b1 == [bag EXCEPT !.code = code, !.validation = runNo]
                      bf == [bag EXCEPT !.code = code, !.validation = None]
                  IN /\ o \in PersistOutcomes \cup {"raise", "raise_open_fail",
                                                   "raise_write_fail"}
                     /\ Budget(o)
                     /\ how = "no" => Raises(o) \/ o = "kill_in_work"
                     /\ Raises(o) \/ Killed(o) => x = 0
                     /\ flow_id' = [flow_id EXCEPT !["step6"] = id]
                     /\ executed' = executed \cup {"step6"}
                     /\ IF Raises(o)
                        THEN /\ bag' = bf
                             /\ fs' = [f1 EXCEPT ![id].ckpt = save_checkpoint(@,
                                         Step6FailureCheckpoint(runNo, BagOut(bf)),
                                         MarkerOutcome(o))]
                             /\ EndRun("raised", "step6")
                        ELSE /\ bag' = b1
                             /\ fs' = IF o = "kill_in_work" THEN f1
                                      ELSE Execute([f1 EXCEPT ![id] =
                                          [@ EXCEPT !.code_file = code,
                                                    !.ckpt = save_checkpoint(@,
                                                        Checkpoint("code_validated", runNo,
                                                            {"analysis_results",
                                                             "visual_results", "synthesized",
                                                             "schema", "code", "validation"},
                                                            BagOut(b1), "none"),
                                                        WriteOutcome(o))]], id, x)
                             /\ IF Killed(o) THEN EndRun("killed", "none")
                                ELSE Goto("inter")
    /\ Marked(o)
    /\ UNCHANGED <<runNo, use_visual, resume, completed_steps, startFs, prev, root, next_id, input, html_files, loader, store, deleted, codegen, convert, procs>>

\* one intermediate_results.json written into the directory of a step
WriteIntermediate(f, id, name) == [f EXCEPT ![id].intermediate = name]

\* "Save intermediate results to each step's flow directory", steps 1 to 6 in
\* that order; step 2 only if use_visual and visual_results is a non-empty list
Intermediate ==
    /\ pc = "inter"
    /\ LET f1 == WriteIntermediate(fs, flow_id["step1"], "step1_text_analysis")
           f2 == IF use_visual /\ bag.visual_results \notin {None, EmptyList}
                 THEN WriteIntermediate(f1, flow_id["step2"], "step2_visual_analysis")
                 ELSE f1
           f3 == WriteIntermediate(f2, flow_id["step3"], "step3_synthesized")
           f4 == WriteIntermediate(f3, flow_id["step4"], "step4_schema")
           f5 == WriteIntermediate(f4, flow_id["step5"], "step5_code_generated")
       IN fs' = WriteIntermediate(f5, flow_id["step6"], "step6_code_validated")
    /\ Goto("s7")
    /\ UNCHANGED <<runNo, faults, lost, use_visual, resume, bag, completed_steps, flow_id,
                   executed, startFs, prev, root, next_id, input, html_files, loader, store, deleted, codegen, convert, procs, marker>>

\* Step 7: markdown converter generation (optional: its failure is swallowed).
\* pick is the directory the markdown scan meets first (0: none matches).
Step7(o, pick) ==
    /\ pc = "s7"
    /\ LET found == {i \in WithCheckpoint(fs) : StepOf(fs, i) = "markdown_converted"}
           ck == IF pick = 0 THEN NoCkpt ELSE load_checkpoint(fs[pick].ckpt)
           markdown_converter_code == Get(ck, "markdown_converter_code")
           content_analysis == Get(ck, "content_analysis")
       IN /\ IF found = {} THEN pick = 0 ELSE pick \in found
          /\ IF markdown_converter_code # None /\ content_analysis # None
             THEN /\ o = "ok"
                  /\ bag' = [bag EXCEPT !.markdown_converter_code = markdown_converter_code,
                                        !.content_analysis = content_analysis]
                  /\ flow_id' = [flow_id EXCEPT !["step7"] = pick]
                  /\ fs' = get_flow_output_dir(fs, pick)
                  /\ Goto("ret")
                  /\ UNCHANGED <<executed, faults, lost>>
             ELSE LET id == get_next_flow_id(fs)
                      f1 == get_flow_output_dir(fs, id)
                  IN /\ flow_id' = [flow_id EXCEPT !["step7"] = id]
                     /\ IF fs[flow_id["step6"]].extraction_results = 0
                        THEN /\ o = "ok"
                             /\ bag' = [bag EXCEPT !.markdown_converter_code = Get(ck,
                                                      "markdown_converter_code"),
                                                   !.content_analysis = Get(ck,
                                                      "content_analysis")]
                             /\ fs' = f1
                             /\ Goto("ret")
                             /\ UNCHANGED <<executed, faults, lost>>
                        ELSE LET b1 == [bag EXCEPT !.markdown_converter_code = runNo,
                                                   !.content_analysis = runNo]
                             IN /\ o \in PersistOutcomes \cup {"raise", "raise_open_fail",
                                                              "raise_write_fail"}
                                /\ Budget(o)
                                /\ executed' = executed \cup {"step7"}
                                /\ IF Raises(o)
                                   THEN /\ bag' = bag
                                        /\ fs' = [f1 EXCEPT ![id].ckpt = save_checkpoint(@,
                                                    Step7FailureCheckpoint(runNo, bag),
                                                    MarkerOutcome(o))]
                                        /\ Goto("ret")
                                   ELSE /\ bag' = b1
                                        /\ fs' = IF o = "kill_in_work" THEN f1
                                                 ELSE [f1 EXCEPT ![id].ckpt =
                                                    save_checkpoint(@,
                                                        Checkpoint("markdown_converted", runNo,
                                                            {"content_analysis",
                                                             "markdown_converter_code"},
                                                            b1, "none"),
                                                        WriteOutcome(o))]
                                        /\ IF Killed(o) THEN EndRun("killed", "none")
                                           ELSE Goto("ret")
    /\ Marked(o)
    /\ UNCHANGED <<runNo, use_visual, resume, completed_steps, startFs, prev, root, next_id, input, html_files, loader, store, deleted, codegen, convert, procs>>

\* the step 7 intermediate results and the return of {"success": True, ...}
Return ==
    /\ pc = "ret"
    /\ fs' = WriteIntermediate(fs, flow_id["step7"], "step7_markdown_converted")
    /\ EndRun("success", "none")
    /\ UNCHANGED <<runNo, faults, lost, use_visual, resume, bag, completed_steps, flow_id,
                   executed, startFs, prev, root, next_id, input, html_files, loader, store, deleted, codegen, convert, procs, marker>>

\* the process is killed between two steps
Kill ==
    /\ pc \notin {"idle"}
    /\ faults < MaxFaults
    /\ faults' = faults + 1
    /\ EndRun("killed", "none")
    /\ UNCHANGED <<fs, runNo, use_visual, resume, bag, completed_steps, flow_id,
                   executed, startFs, prev, root, next_id, input, html_files, loader, store, deleted, codegen, convert, procs, marker, lost>>

StepOutcomes == PersistOutcomes \cup {"api_fail", "raise", "raise_open_fail",
                                      "raise_write_fail"}

Rewrites == {"no", "marked", "fixed"}

Next ==
    \/ \E v \in BOOLEAN, r \in BOOLEAN : StartRun(v, r)
    \/ ResumeScan
    \/ \E o \in StepOutcomes : Step1(o)
    \/ \E o \in StepOutcomes : Step2(o)
    \/ \E o \in StepOutcomes : Step3(o)
    \/ \E o \in StepOutcomes : Step4(o)
    \/ \E o \in StepOutcomes, pick \in 0..Len(fs) : Step5(o, pick)
    \/ \E o \in StepOutcomes, pick \in 0..Len(fs), how \in Rewrites, x \in 0..MaxSpread :
           Step6(o, pick, how, x)
    \/ Intermediate
    \/ \E o \in StepOutcomes, pick \in 0..Len(fs) : Step7(o, pick)
    \/ Return
    \/ Kill

Spec == Init /\ [][Next]_vars

\* a process that is not killed goes on: the step it is at returns or raises
SpecFair == Init /\ [][Next]_vars /\ WF_vars(Next)

(* ---- a slot directory removed between two invocations ------------------ *)
\* The pipeline never removes a flow directory; a removal is an act of the
\* operator between two invocations.  It is counted against the same budget
\* as the non-success outcomes.  The terminal identity the slot's checkpoint
\* carried is remembered so that the following run can be compared with it.
HeldStep(slot) ==
    IF slot.ckpt.kind = "ok" /\ slot.ckpt.failed = "none" THEN slot.ckpt.step ELSE "none"

DeleteSlot(i) ==
    /\ pc = "idle"
    /\ runNo >= 1
    /\ runNo < MaxRuns
    /\ faults < MaxFaults
    /\ i \in FlowIds(fs)
    /\ faults' = faults + 1
    /\ fs' = [fs EXCEPT ![i] = NoSlot]
    /\ deleted' = deleted \cup {[id |-> i, step |-> HeldStep(fs[i]), run |-> runNo]}
    /\ UNCHANGED <<pc, runNo, use_visual, resume, bag, completed_steps, flow_id,
                   executed, startFs, prev, root, next_id, input, html_files,
                   loader, store, marker, lost, result, raisedAt, codegen, convert, procs>>

NextDelete ==
    \/ \E v \in BOOLEAN, r \in BOOLEAN : StartRun(v, r)
    \/ ResumeScan
    \/ \E o \in StepOutcomes : Step1(o)
    \/ \E o \in StepOutcomes : Step2(o)
    \/ \E o \in StepOutcomes : Step3(o)
    \/ \E o \in StepOutcomes : Step4(o)
    \/ \E o \in StepOutcomes, pick \in 0..Len(fs) : Step5(o, pick)
    \/ \E o \in StepOutcomes, pick \in 0..Len(fs), how \in Rewrites, x \in 0..MaxSpread :
           Step6(o, pick, how, x)
    \/ Intermediate
    \/ \E o \in StepOutcomes, pick \in 0..Len(fs) : Step7(o, pick)
    \/ Return
    \/ Kill
    \/ \E i \in 1..Len(fs) : DeleteSlot(i)

SpecDelete == Init /\ [][NextDelete]_vars

\* ------------------------------------------------------- process_input
ErrorResult == [error |-> TRUE, n |-> 0]

Documents(n) == [error |-> FALSE, n |-> n]

\* _process_directory up to its call of _process_html_files
process_directory(inp) ==
    IF inp.html = 0 THEN ErrorResult ELSE Documents(inp.html)

\* _process_url_list up to its call of _process_html_files
process_url_list(inp, r) ==
    IF inp.urls = 0 THEN ErrorResult
    ELSE IF r /\ inp.cached # "none"
    THEN Documents(IF inp.cached = "html" THEN inp.urls ELSE 0)
    ELSE IF inp.fetched = 0 THEN ErrorResult
    ELSE Documents(inp.fetched)

\* process_input: return {"error": ...}
ReturnError(v, r) ==
    /\ pc = "idle"
    /\ runNo' = runNo + 1
    /\ use_visual' = v
    /\ resume' = r
    /\ result' = "error"
    /\ executed' = {}
    /\ startFs' = fs
    /\ html_files' = 0
    /\ UNCHANGED <<fs, pc, faults, bag, completed_steps, flow_id, prev, raisedAt, marker,
                   lost, root, next_id, loader, store, deleted, codegen, convert, procs>>

\* main: return 0 if result.get('success') else 1; an exception that leaves
\* process_input leaves main as well and the interpreter exits with status 1
ExitStatus(r) == IF r = "success" THEN 0 ELSE 1

\* process_input(input_path, use_visual, resume)
ProcessInput(inp, v, r) ==
    /\ runNo < MaxInputRuns
    /\ input' = inp
    /\ LET routed == CASE inp.kind = "url_file" -> process_url_list(inp, r)
                       [] inp.kind = "dir" -> process_directory(inp)
                       [] OTHER -> ErrorResult
       IN IF routed.error THEN ReturnError(v, r) ELSE EnterPipeline(v, r, routed.n)

NextInput ==
    \/ \E inp \in Inputs, v \in BOOLEAN, r \in BOOLEAN : ProcessInput(inp, v, r)
    \/ ResumeScan
    \/ \E o \in StepOutcomes : Step1(o)
    \/ \E o \in StepOutcomes : Step2(o)
    \/ \E o \in StepOutcomes : Step3(o)
    \/ \E o \in StepOutcomes : Step4(o)
    \/ \E o \in StepOutcomes, pick \in 0..Len(fs) : Step5(o, pick)
    \/ \E o \in StepOutcomes, pick \in 0..Len(fs), how \in Rewrites, x \in 0..MaxSpread :
           Step6(o, pick, how, x)
    \/ Intermediate
    \/ \E o \in StepOutcomes, pick \in 0..Len(fs) : Step7(o, pick)
    \/ Return
    \/ Kill

SpecInput == Init /\ [][NextInput]_vars

\* ----------------------------------------------- get_next_flow_id alone
\* one call of Settings.get_next_flow_id on some OUTPUT_DIR
CallNextFlowId ==
    /\ ~next_id.called
    /\ next_id' = [called |-> TRUE, id |-> get_next_flow_id_of(root)]
    /\ UNCHANGED <<fs, pc, runNo, faults, use_visual, resume, bag, completed_steps,
                   flow_id, result, executed, startFs, prev, raisedAt, marker, lost,
                   root, input, html_files, loader, store, deleted, codegen, convert, procs>>

InitNextFlowId ==
    /\ InitPipeline
    /\ \/ root = NoRoot
       \/ root = RootOf({})
       \/ \E a \in Entries, b \in Entries : root = RootOf({a, b})
    /\ next_id = NotCalled
    /\ input = NoInput
    /\ html_files = 0

SpecNextFlowId == InitNextFlowId /\ [][CallNextFlowId]_vars

\* ------------------------------------------- executors of generated code
\* _execute_extraction_code (step 6.5) and _execute_markdown_conversion
\* (step 7.5): load a module from a generated file, check its interface, run
\* its operation on every file.  Texts are strings; the tests on them are the
\* substring tests of the code.
Kinds == {"extraction", "markdown"}

ClassName(kind) == IF kind = "extraction" THEN "HTMLExtractor" ELSE "MarkdownConverter"

OperationName(kind) == IF kind = "extraction" THEN "extract" ELSE "convert"

\* the keyword the executor passes to the operation
Keyword(kind) == IF kind = "extraction" THEN "html_content" ELSE "json_data"

\* sub in s
Contains(s, sub) ==
    \E i \in 1..(Len(s) - Len(sub) + 1) : SubSeq(s, i, i + Len(sub) - 1) = sub

EndsWith(s, suffix) ==
    /\ Len(s) >= Len(suffix)
    /\ SubSeq(s, Len(s) - Len(suffix) + 1, Len(s)) = suffix

UpperLetters == "ABCDEFGHIJKLMNOPQRSTUVWXYZ"

LowerLetters == "abcdefghijklmnopqrstuvwxyz"

LowerChar(c) ==
    IF \E i \in 1..26 : SubSeq(UpperLetters, i, i) = c
    THEN LET i == CHOOSE j \in 1..26 : SubSeq(UpperLetters, j, j) = c
         IN SubSeq(LowerLetters, i, i)
    ELSE c

\* str.lower()
RECURSIVE Lower(_)
Lower(s) ==
    IF Len(s) = 0 THEN "" ELSE LowerChar(SubSeq(s, 1, 1)) \o Lower(SubSeq(s, 2, Len(s)))

\* str(inspect.Signature.empty)
NoAnnotation == "<class 'inspect._empty'>"

\* str(return_annotation) of the operation of a generated class
Annotations ==
    {NoAnnotation, "typing.Dict[str, typing.Any]", "<class 'dict'>", "<class 'str'>",
     "typing.Optional[str]", "typing.List[typing.Dict[str, typing.Any]]",
     "<class 'list'>", "<class 'extraction_code.Prediction'>"}

\* the signatures of __init__ of a generated class, without self
InitSignatures ==
    {[params |-> {}, required |-> {}],
     [params |-> {"schema"}, required |-> {"schema"}],
     [params |-> {"schema", "logger"}, required |-> {"schema"}],
     [params |-> {"schema", "config"}, required |-> {"schema", "config"}]}

OperationParams(kind) ==
    IF kind = "extraction" THEN {"html_content", "file_path"} ELSE {"json_data", "data"}

\* a module that exec_module cannot execute
BrokenModule == [loads |-> FALSE, class |-> FALSE, init |-> [params |-> {}, required |-> {}],
                 init_raises |-> FALSE, op |-> FALSE, params |-> {},
                 annotation |-> NoAnnotation]

\* a module without the class the executor looks for
ClasslessModule == [BrokenModule EXCEPT !.loads = TRUE]

\* what a generated file can define: whether it executes, whether it defines
\* the class, the signature of the constructor and whether the constructor
\* raises, whether instances have the operation, the parameter names and the
\* return annotation of the operation
Modules(kind) ==
    {BrokenModule, ClasslessModule} \cup
    {m \in [loads : {TRUE}, class : {TRUE}, init : InitSignatures, init_raises : BOOLEAN,
            op : BOOLEAN, params : SUBSET OperationParams(kind),
            annotation : Annotations] :
        ~m.op => m.params = {} /\ m.annotation = NoAnnotation}

\* the names of the files an executor is handed: *.html of the spread
\* directory, *.json of extraction_results
FileNames(kind) ==
    IF kind = "extraction" THEN {"a.html", "a b.html", "a_b.html"}
    ELSE {"a.json", "a_b.json"}

\* the listings of at most MaxSpread files
Listings(kind) ==
    {d \in UNION {[1..n -> FileNames(kind)] : n \in 0..MaxSpread} :
        \A i, j \in 1..Len(d) : i # j => d[i] # d[j]}

\* re.sub(r'[^\w\-_\.]', '_', s)
CleanChar(c) ==
    IF Contains(LowerLetters \o UpperLetters \o "0123456789_-.", c) THEN c ELSE "_"

RECURSIVE Clean(_)
Clean(s) ==
    IF Len(s) = 0 THEN "" ELSE CleanChar(SubSeq(s, 1, 1)) \o Clean(SubSeq(s, 2, Len(s)))

\* s.rsplit(suffix, 1)[0] if s.endswith(suffix) else s
StripSuffix(s, suffix) ==
    IF EndsWith(s, suffix) THEN SubSeq(s, 1, Len(s) - Len(suffix)) ELSE s

\* the name of the file written for the result of one input file
ResultName(kind, name) ==
    IF kind = "extraction"
    THEN Clean(StripSuffix(StripSuffix(name, ".html"), ".htm") \o ".json")
    ELSE StripSuffix(name, ".json") \o ".md"

\* mutant: the return annotation is not looked at
AnnotationAccepted_Any(kind, a) == TRUE

\* the tests on the return annotation of the operation
AnnotationAccepted(kind, a) ==
    /\ a # NoAnnotation
    /\ IF kind = "extraction"
       THEN Contains(a, "Dict") \/ Contains(Lower(a), "dict")
       ELSE Contains(a, "str")

\* the test on the parameter names of the operation
ParametersAccepted(kind, params) ==
    IF kind = "extraction"
    THEN "html_content" \in params \/ "file_path" \in params
    ELSE "json_data" \in params

\* the test on the signature of __init__
InitAccepted(kind, init) ==
    IF kind = "extraction" THEN "schema" \in init.params ELSE init.required = {}

\* raise ... inside the try block: the outer except logs it and returns None
Failed(l, element) == [l EXCEPT !.pc = "returned", !.error = element, !.ret = "None"]

\* one invocation of an operation of the generated code, with the interface
\* checks that had passed when it was made
Call(l, op) == [l EXCEPT !.calls = Append(@, [op |-> op, passed |-> l.passed])]

\* an executor touches nothing of the pipeline's own state
LoaderFrame ==
    UNCHANGED <<fs, pc, runNo, faults, use_visual, resume, bag, completed_steps,
                flow_id, result, executed, startFs, prev, raisedAt, marker, lost,
                root, next_id, input, html_files, store, deleted, codegen, convert, procs>>

\* the executor is called: it lists the files, returns None when there are
\* none, and executes the generated file as a module
StartExecutor(kind, docs, m) ==
    /\ LoaderFrame
    /\ loader.pc = "idle"
    /\ LET l == [loader EXCEPT !.kind = kind, !.docs = docs, !.mod = m,
                                !.total_files = Len(docs)]
       IN loader' = IF docs = <<>> THEN [l EXCEPT !.pc = "returned", !.ret = "None"]
                    ELSE IF ~m.loads THEN Failed(l, "module")
                    ELSE [l EXCEPT !.pc = "loaded"]

\* 1. hasattr(module, class name)
CheckClass ==
    /\ LoaderFrame
    /\ loader.pc = "loaded"
    /\ loader' = IF loader.mod.class
                 THEN [loader EXCEPT !.pc = "class_ok", !.passed = @ \cup {"class"}]
                 ELSE Failed(loader, ClassName(loader.kind))

\* 2. inspect.signature(class.__init__)
CheckInit ==
    /\ LoaderFrame
    /\ loader.pc = "class_ok"
    /\ loader' = IF InitAccepted(loader.kind, loader.mod.init)
                 THEN [loader EXCEPT !.pc = "init_ok", !.passed = @ \cup {"init"}]
                 ELSE Failed(loader, "__init__")

\* instantiate: HTMLExtractor(schema=...) / MarkdownConverter()
Instantiate ==
    /\ LoaderFrame
    /\ loader.pc = "init_ok"
    /\ LET l == Call(loader, "__init__")
           given == IF loader.kind = "extraction" THEN {"schema"} ELSE {}
       IN loader' = IF loader.mod.init_raises \/ loader.mod.init.required \ given # {}
                    THEN Failed(l, "constructor")
                    ELSE [l EXCEPT !.pc = "instantiated"]

\* hasattr(instance, operation name)
CheckOperation ==
    /\ LoaderFrame
    /\ loader.pc = "instantiated"
    /\ loader' = IF loader.mod.op
                 THEN [loader EXCEPT !.pc = "op_ok", !.passed = @ \cup {"operation"}]
                 ELSE Failed(loader, OperationName(loader.kind))

\* inspect.signature(operation): parameter names, return annotation; then the
\* results directory is created
CheckSignature ==
    /\ LoaderFrame
    /\ loader.pc = "op_ok"
    /\ loader' =
         IF ~ParametersAccepted(loader.kind, loader.mod.params)
         THEN Failed(loader, "parameters")
         ELSE IF ~AnnotationAccepted(loader.kind, loader.mod.annotation)
         THEN Failed([loader EXCEPT !.passed = @ \cup {"parameters"}], "annotation")
         ELSE [loader EXCEPT !.pc = "verified",
                             !.passed = @ \cup {"parameters", "annotation"},
                             !.results_dir = TRUE]

\* what handling one file can come to: the file cannot be read, the operation
\* returns a value of the required type, a value of another type, or raises
FileOutcomes == {"unreadable", "value", "other", "raises"}

\* one turn of the loop over the files: the operation is called with the one
\* keyword; every exception is caught and counted
ProcessFile(out) ==
    /\ LoaderFrame
    /\ loader.pc = "verified"
    /\ loader.docs # <<>>
    /\ LET rest == [loader EXCEPT !.docs = Tail(@)]
           name == Head(loader.docs)
           entry(status) == [file |-> name, status |-> status]
       IN loader' =
            IF out = "unreadable"
            THEN [rest EXCEPT !.failed = @ + 1,
                              !.results_summary = Append(@, entry("failed"))]
            ELSE IF out = "value" /\ Keyword(loader.kind) \in loader.mod.params
            THEN [Call(rest, OperationName(loader.kind)) EXCEPT
                     !.files = @ \cup {ResultName(loader.kind, name)},
                     !.processed = @ + 1,
                     !.results_summary = Append(@, entry("success"))]
            ELSE [Call(rest, OperationName(loader.kind)) EXCEPT
                     !.failed = @ + 1,
                     !.results_summary = Append(@, entry("failed"))]

\* after the loop: the summary file is written and the counts are returned
FinishExecutor ==
    /\ LoaderFrame
    /\ loader.pc = "verified"
    /\ loader.docs = <<>>
    /\ loader' = [loader EXCEPT !.pc = "returned", !.summary = TRUE, !.ret = "dict"]

\* steps 6.5 and 7.5 of _process_html_files: the return value is logged and the
\* invocation goes on to the next step
HandleReturn ==
    /\ LoaderFrame
    /\ loader.pc = "returned"
    /\ loader' = [loader EXCEPT !.pc = "handled",
                                !.log = IF loader.ret = "dict" THEN "info" ELSE "warning"]

NextLoader ==
    \/ \E kind \in Kinds : \E docs \in Listings(kind), m \in Modules(kind) :
           StartExecutor(kind, docs, m)
    \/ CheckClass
    \/ CheckInit
    \/ Instantiate
    \/ CheckOperation
    \/ CheckSignature
    \/ \E out \in FileOutcomes : ProcessFile(out)
    \/ FinishExecutor
    \/ HandleReturn

SpecLoader == Init /\ [][NextLoader]_vars

\* ------------------------------------------------- step-result files
\* CheckpointManager.save_step_result, load_step_result, step_result_exists on
\* one output directory.  A Python value is its type and its text: for a dict
\* or a list the JSON text json.dump writes (indentation left out), for a str
\* its characters.
NoneValue == [type |-> "none", body |-> ""]

PyBool(b) == [type |-> "bool", body |-> IF b THEN "True" ELSE "False"]

\* dicts and lists of JSON values
Structures ==
    {[type |-> "dict", body |-> "{}"], [type |-> "dict", body |-> "{\"a\": 1}"],
     [type |-> "dict", body |-> "{\"result\": \"1\"}"],
     [type |-> "list", body |-> "[]"], [type |-> "list", body |-> "[1]"]}

\* str values: plain text, the empty string, text that is a JSON document,
\* text with a carriage return
Strings ==
    {[type |-> "str", body |-> b] : b \in {"abc", "", "[1]", "1", "a\r\nb", "a\nb"}}

Numbers == {[type |-> "int", body |-> "1"]}

Values == Structures \cup Strings \cup Numbers

\* the name parameter
StepNames == {"step4_schema", "step5_code"}

NoFilename == ""     \* filename=None, the default of the parameter

Filenames == {NoFilename, "result.json", "extraction_code.py"}

\* filename = f"{step_name}_result.json" if filename is None
PathOf(name, filename) == IF filename = NoFilename THEN name \o "_result.json" ELSE filename

\* json.dump(value): the text of a JSON value
JsonText(v) == IF v.type = "str" THEN "\"" \o v.body \o "\"" ELSE v.body

\* the character after position i of text t starts a line feed
LineFeedAt(t, i) == i <= Len(t) /\ SubSeq(t, i, i) = "\n"

\* f.read() of a file opened in text mode: \r\n and \r become \n
RECURSIVE ReadText(_)
ReadText(t) ==
    IF Len(t) = 0 THEN ""
    ELSE IF SubSeq(t, 1, 1) = "\r"
    THEN "\n" \o ReadText(SubSeq(t, IF LineFeedAt(t, 2) THEN 3 ELSE 2, Len(t)))
    ELSE SubSeq(t, 1, 1) \o ReadText(SubSeq(t, 2, Len(t)))

\* json.load(text): the value whose JSON text it is; raises on any other text
JsonDecodable(t) == \E v \in Values : JsonText(v) = t

json_load(t) == CHOOSE v \in Values : JsonText(v) = t

\* what save_step_result writes for a value: JSON for a dict or a list, the
\* characters of a str, {"result": str(value)} for anything else
Written(v) ==
    CASE v.type \in {"dict", "list"} -> JsonText(v)
      [] v.type = "str" -> v.body
      [] OTHER -> "{\"result\": \"" \o v.body \o "\"}"

\* mutant: save_step_result writes every value as JSON
save_step_result_AlwaysJson(files, name, filename, v, fault) ==
    IF fault = "open" THEN files
    ELSE [p \in DOMAIN files \cup {PathOf(name, filename)} |->
             IF p = PathOf(name, filename)
             THEN (IF fault = "write" THEN "" ELSE JsonText(v))
             ELSE files[p]]

\* save_step_result(name, v, filename) on the files of the directory; fault:
\* "no", "open" (open raises, nothing changes), "write" (the write raises after
\* open truncated the file)
save_step_result(files, name, filename, v, fault) ==
    IF fault = "open" THEN files
    ELSE [p \in DOMAIN files \cup {PathOf(name, filename)} |->
             IF p = PathOf(name, filename)
             THEN (IF fault = "write" THEN "" ELSE Written(v))
             ELSE files[p]]

\* load_step_result(name, filename): None when the file is missing or cannot
\* be decoded
load_step_result(files, name, filename) ==
    LET path == PathOf(name, filename)
    IN IF path \notin DOMAIN files THEN NoneValue
       ELSE IF EndsWith(path, ".json")
       THEN (IF JsonDecodable(files[path]) THEN json_load(files[path]) ELSE NoneValue)
       ELSE [type |-> "str", body |-> ReadText(files[path])]

\* step_result_exists(name, filename)
step_result_exists(files, name, filename) == PathOf(name, filename) \in DOMAIN files

StoreFrame ==
    UNCHANGED <<fs, pc, runNo, faults, use_visual, resume, bag, completed_steps,
                flow_id, result, executed, startFs, prev, raisedAt, marker, lost,
                root, next_id, input, html_files, loader, deleted, codegen, convert, procs>>

SaveFaults == {"no", "open", "write"}

\* one call of save_step_result
SaveStepResult(name, filename, v, fault) ==
    /\ StoreFrame
    /\ store.saves < MaxSaves
    /\ store' = [files |-> save_step_result(store.files, name, filename, v, fault),
                 saves |-> store.saves + 1,
                 saved |-> [name |-> name, filename |-> filename, value |-> v,
                            ok |-> fault = "no"],
                 answer |-> NoStore.answer]

\* one call of load_step_result
LoadStepResult(name, filename) ==
    /\ StoreFrame
    /\ store.answer.op = "none"
    /\ store' = [store EXCEPT !.answer =
                    [op |-> "load", name |-> name, filename |-> filename,
                     value |-> load_step_result(store.files, name, filename)]]

\* one call of step_result_exists
StepResultExists(name, filename) ==
    /\ StoreFrame
    /\ store.answer.op = "none"
    /\ store' = [store EXCEPT !.answer =
                    [op |-> "exists", name |-> name, filename |-> filename,
                     value |-> PyBool(step_result_exists(store.files, name, filename))]]

NextStore ==
    \/ \E name \in StepNames, filename \in Filenames, v \in Values, fault \in SaveFaults :
           SaveStepResult(name, filename, v, fault)
    \/ \E name \in StepNames, filename \in Filenames : LoadStepResult(name, filename)
    \/ \E name \in StepNames, filename \in Filenames : StepResultExists(name, filename)

SpecStore == Init /\ [][NextStore]_vars

(* ---- step 7.3 to 7.4: the converter code and its syntax validation ------ *)
\* a converter code is a text of lines; a line is well formed ("ok"), holds an
\* unterminated f-string ("fstring") or another syntax error ("broken"); nul:
\* the text holds a null byte
LineKinds == {"ok", "fstring", "broken"}

Texts == UNION {[1..n -> LineKinds] : n \in 1..MaxLines}

ConverterCode(origin, lines, nul) == [origin |-> origin, lines |-> lines, nul |-> nul]

\* the first line compile() rejects (0: none)
ErrorLine(code) ==
    LET bad == {i \in 1..Len(code.lines) : code.lines[i] # "ok"}
    IN IF bad = {} THEN 0 ELSE CHOOSE i \in bad : \A j \in bad : i <= j

\* what compile() makes of a text: it compiles, raises SyntaxError, or raises
\* something else (ValueError on a null byte)
Syntax(code) ==
    CASE code.nul -> "not_compilable"
      [] ErrorLine(code) = 0 -> "valid"
      [] OTHER -> "syntax_error"

\* what _fix_markdown_converter_syntax can make of the line of the error: it
\* only edits a line with an f-string, by rules that may or may not close it
FixedLines(kind) == IF kind = "fstring" THEN LineKinds ELSE {kind}

\* max_retries of the validation loop
MaxSyntaxRetries == 2

ConvertFrame ==
    UNCHANGED <<fs, pc, runNo, faults, use_visual, resume, bag, completed_steps,
                flow_id, result, executed, startFs, prev, raisedAt, marker, lost,
                root, next_id, input, html_files, loader, store, deleted, codegen, procs>>

\* step 7.3: generate_markdown_converter_code returns a text or raises
GenerateConverter(raises, text, nul) ==
    /\ convert.pc = "idle"
    /\ convert' = IF raises THEN [convert EXCEPT !.pc = "raised"]
                  ELSE [convert EXCEPT !.pc = "compile", !.retry_count = 0,
                                       !.markdown_converter_code =
                                           ConverterCode("generated", text, nul)]
    /\ ConvertFrame

\* one pass of the while loop up to the branch taken: compile() and, on
\* SyntaxError, the choice by retry_count
Compile ==
    /\ convert.pc = "compile"
    /\ convert.retry_count <= MaxSyntaxRetries
    /\ LET code == convert.markdown_converter_code
           to == CASE Syntax(code) = "valid" -> "save"
                   [] Syntax(code) = "not_compilable" -> "raised"
                   [] convert.retry_count = 0 -> "fix"
                   [] convert.retry_count = 1 -> "regenerate"
                   [] OTHER -> "raised"
       IN convert' = [convert EXCEPT !.compiled = Append(@, code), !.pc = to]
    /\ ConvertFrame

\* _fix_markdown_converter_syntax: a text edited line by line
FixSyntax(line) ==
    /\ convert.pc = "fix"
    /\ LET code == convert.markdown_converter_code
           at == ErrorLine(code)
       IN /\ line \in FixedLines(code.lines[at])
          /\ convert' = [convert EXCEPT !.markdown_converter_code =
                                            ConverterCode("fixed",
                                                [code.lines EXCEPT ![at] = line], FALSE),
                                        !.retry_count = @ + 1,
                                        !.fixes = @ + 1,
                                        !.pc = "compile"]
    /\ ConvertFrame

\* generate_markdown_converter_code(..., retry=True): a text, or the API raises
Regenerate(raises, text, nul) ==
    /\ convert.pc = "regenerate"
    /\ convert' = IF raises THEN [convert EXCEPT !.regenerations = @ + 1,
                                                 !.pc = "raised"]
                  ELSE [convert EXCEPT !.markdown_converter_code =
                                           ConverterCode("regenerated", text, nul),
                                       !.retry_count = @ + 1,
                                       !.regenerations = @ + 1,
                                       !.pc = "compile"]
    /\ ConvertFrame

\* mutant: the file and the checkpoint get the code as it was generated first
SaveConverter_FirstText(out) ==
    /\ convert.pc = "save"
    /\ convert' =
           CASE out = "open_fail" -> [convert EXCEPT !.pc = "raised"]
             [] out = "checkpoint_fail" ->
                    [convert EXCEPT !.file = convert.compiled[1], !.pc = "done"]
             [] OTHER ->
                    [convert EXCEPT !.file = convert.compiled[1],
                                    !.checkpoint = convert.compiled[1],
                                    !.pc = "done"]
    /\ ConvertFrame

\* after the loop: markdown_converter.py is written (open may raise) and the
\* markdown_converted checkpoint saved (a failure of it is only logged)
SaveConverter(out) ==
    /\ convert.pc = "save"
    /\ convert' =
           CASE out = "open_fail" -> [convert EXCEPT !.pc = "raised"]
             [] out = "checkpoint_fail" ->
                    [convert EXCEPT !.file = convert.markdown_converter_code, !.pc = "done"]
             [] OTHER ->
                    [convert EXCEPT !.file = convert.markdown_converter_code,
                                    !.checkpoint = convert.markdown_converter_code,
                                    !.pc = "done"]
    /\ ConvertFrame

NextConvert ==
    \/ \E raises, nul \in BOOLEAN, text \in Texts : GenerateConverter(raises, text, nul)
    \/ Compile
    \/ \E line \in LineKinds : FixSyntax(line)
    \/ \E raises, nul \in BOOLEAN, text \in Texts : Regenerate(raises, text, nul)
    \/ \E out \in {"ok", "open_fail", "checkpoint_fail"} : SaveConverter(out)

SpecConvert == Init /\ [][NextConvert]_vars

(* ---- generate_extraction_code: the retry loop of the code generator ----- *)
max_retries == 3

\* retry_delay before the first attempt, in seconds
InitialDelay == 2

ClientTypes == {"anthropic", "openai"}

\* what one call of the collaborator can come to.  "text": the response holds
\* the code; "fenced": the code sits in a Markdown fence; "no_text": an
\* Anthropic response without a text block; "no_choices": an OpenAI response
\* without choices; "none_content": an OpenAI message whose content is None,
\* on which re.search raises inside the try block; "error_502", "error": the
\* client raised.
Responses(client_type) ==
    {"text", "fenced", "error_502", "error"}
        \cup (IF client_type = "anthropic" THEN {"no_text"}
              ELSE {"no_choices", "none_content"})

\* the attempt ends in the except clause
AttemptRaises(resp) == resp \in {"error_502", "error", "none_content"}

\* the value a return statement of the try block gives back
Returned(resp) ==
    CASE resp = "text" -> "code"
      [] resp = "fenced" -> "code_of_fence"
      [] resp = "no_text" -> "# Error: No text content in response"
      [] OTHER -> "# Error: Unexpected response format"

CodegenFrame ==
    UNCHANGED <<fs, pc, runNo, faults, use_visual, resume, bag, completed_steps,
                flow_id, result, executed, startFs, prev, raisedAt, marker, lost,
                root, next_id, input, html_files, loader, store, deleted, convert, procs>>

\* entry: max_retries = 3, retry_delay = 2, for attempt in range(max_retries)
GenerateExtractionCode(c) ==
    /\ codegen.pc = "idle"
    /\ codegen' = [codegen EXCEPT !.pc = "call", !.client_type = c, !.attempt = 0,
                                  !.retry_delay = InitialDelay]
    /\ CodegenFrame

\* the try block of one attempt: the call, then either a return or the
\* except clause, which goes to sleep or, on the last attempt, returns the
\* fallback template
Attempt(resp) ==
    /\ codegen.pc = "call"
    /\ resp \in Responses(codegen.client_type)
    /\ codegen' =
           IF ~AttemptRaises(resp)
           THEN [codegen EXCEPT !.calls = Append(@, resp), !.pc = "done",
                                !.ret = Returned(resp)]
           ELSE IF codegen.attempt < max_retries - 1
           THEN [codegen EXCEPT !.calls = Append(@, resp), !.pc = "sleep"]
           ELSE [codegen EXCEPT !.calls = Append(@, resp), !.pc = "done",
                                !.ret = "fallback"]
    /\ CodegenFrame

\* mutant: the delay stays what it was
Backoff_Constant ==
    /\ codegen.pc = "sleep"
    /\ codegen' = [codegen EXCEPT !.slept = Append(@, codegen.retry_delay),
                                  !.attempt = @ + 1,
                                  !.pc = "call"]
    /\ CodegenFrame

\* time.sleep(retry_delay); retry_delay *= 2; next iteration of the for loop
Backoff ==
    /\ codegen.pc = "sleep"
    /\ codegen' = [codegen EXCEPT !.slept = Append(@, codegen.retry_delay),
                                  !.retry_delay = @ * 2,
                                  !.attempt = @ + 1,
                                  !.pc = "call"]
    /\ CodegenFrame

NextCodegen ==
    \/ \E c \in ClientTypes : GenerateExtractionCode(c)
    \/ \E resp \in Responses(codegen.client_type) : Attempt(resp)
    \/ Backoff

\* a call of the collaborator returns or raises, and a sleep ends
SpecCodegen == Init /\ [][NextCodegen]_vars /\ WF_vars(NextCodegen)

\* ---------------------------------------------------------------- notions
\* the step identity a stage writes when it completes
TerminalIdentity(stage) ==
    CASE stage = "step1" -> "text_analysis"
      [] stage = "step2" -> "visual_analysis"
      [] stage = "step3" -> "synthesized"
      [] stage = "step4" -> "schema"
      [] stage = "step5" -> "code_generated"
      [] stage = "step6" -> "code_validated"
      [] OTHER -> "markdown_converted"

\* the failure flag a stage puts into the checkpoint it writes when it fails
FailureFlag(stage) ==
    CASE stage = "step5" -> "code_generation_failed"
      [] stage = "step6" -> "validation_failed"
      [] stage = "step7" -> "markdown_conversion_failed"
      [] OTHER -> "no_such_flag"

\* the identity the failure checkpoint of a stage is pinned at
PinnedIdentity(stage) ==
    CASE stage = "step5" -> "schema"
      [] stage = "step6" -> "code_generated"
      [] stage = "step7" -> "code_validated"
      [] OTHER -> "no_such_identity"

IsTerminal(ck, stage) ==
    ck.kind = "ok" /\ ck.step = TerminalIdentity(stage) /\ ck.failed = "none"

IsMarker(ck, stage) ==
    ck.kind = "ok" /\ ck.step = PinnedIdentity(stage) /\ ck.failed = FailureFlag(stage)

TerminalSlots(f, stage) == {i \in FlowIds(f) : IsTerminal(f[i].ckpt, stage)}

MarkerSlots(f, stage) == {i \in FlowIds(f) : IsMarker(f[i].ckpt, stage)}

AnyMarkerSlots(f) == UNION {MarkerSlots(f, st) : st \in Stages}

StageNo(stage) ==
    CASE stage = "step1" -> 1 [] stage = "step2" -> 2 [] stage = "step3" -> 3
      [] stage = "step4" -> 4 [] stage = "step5" -> 5 [] stage = "step6" -> 6
      [] OTHER -> 7

\* the stages of a run with visual analysis on (v) or off
Enabled(v) == IF v THEN Stages ELSE Stages \ {"step2"}

Before(stage, v) == {st \in Enabled(v) : StageNo(st) < StageNo(stage)}

\* the checkpoint.json files of the output root
Checkpoints(f) == [i \in 1..Len(f) |-> f[i].ckpt]

\* a resumed invocation that follows an invocation that returned success
AfterSuccess == runNo >= 2 /\ resume /\ prev.resume /\ prev.result = "success"

NothingRedone == executed = {} /\ Checkpoints(fs) = Checkpoints(startFs)

\* ------------------------------------------------------------------- C1
\* C1 as stated: a resumed run that follows a resumed run that completed
\* successfully invokes no stage's work and leaves every checkpoint.json as
\* it was.
C1_AsStated == AfterSuccess => NothingRedone

\* ------------------------------------------------------------------- C2
\* C2: in a resumed run, a stage that has a terminal checkpoint in the output
\* root when the run starts is not executed in that run.
C2_NoCompletedWorkRedone ==
    resume => \A st \in Stages : TerminalSlots(startFs, st) # {} => st \notin executed

\* ------------------------------------------------------------------- C3
MandatoryStages == {"step1", "step3", "step4", "step5", "step6"}

\* stage K raised in a first run in which nothing else went wrong
FirstFailure(K) ==
    result = "raised" /\ raisedAt = K /\ startFs = <<>> /\ faults = 1

\* one terminal checkpoint for each stage before K and no other
TerminalsBefore(K) ==
    \A st \in Stages :
        Cardinality(TerminalSlots(fs, st)) = IF st \in Before(K, use_visual) THEN 1 ELSE 0

\* a resumed run, of the same configuration, that follows such a first run
ResumedAfterFailure(K) ==
    /\ runNo >= 2
    /\ resume
    /\ use_visual = prev.use_visual
    /\ prev.result = "raised"
    /\ prev.raisedAt = K
    /\ prev.fromEmpty
    /\ prev.faults = 1

\* the run executes nothing before K and, if it executes anything, executes K
ResumesAt(K) ==
    /\ executed \cap Before(K, TRUE) = {}
    /\ executed # {} => K \in executed

PreviousStage(K, v) ==
    CHOOSE st \in Before(K, v) : \A other \in Before(K, v) : StageNo(other) <= StageNo(st)

C5_CollaboratorFailurePinsSchema ==
    (pc = "s6" /\ "step5" \in executed /\ bag.code.fallback) =>
        /\ IsMarker(fs[flow_id["step5"]].ckpt, "step5")
        /\ ~IsTerminal(fs[flow_id["step5"]].ckpt, "step5")

\* ------------------------------------------------------------------- C6
RetryStages == {"step5", "step6", "step7"}

\* a slot that did not exist when the run started
Fresh(id) == id > Len(startFs)

OutputsUpTo(stage) ==
    CASE stage = "step1" -> {"analysis_results"}
      [] stage = "step2" -> {"analysis_results", "visual_results"}
      [] stage = "step3" -> {"analysis_results", "visual_results", "synthesized"}
      [] stage = "step4" -> {"analysis_results", "visual_results", "synthesized", "schema"}
      [] stage = "step5" -> {"analysis_results", "visual_results", "synthesized", "schema",
                             "code"}
      [] stage = "step6" -> {"analysis_results", "visual_results", "synthesized", "schema",
                             "code", "validation"}
      [] stage = "step7" -> DataKeys

Holds(ck, k) == k \in ck.keys /\ ck.data[k] # Missing(k)

\* C7: the terminal checkpoint of every stage K, markdown conversion included,
\* holds the outputs of every stage 1..K.
C7_Cumulativity ==
    \A i \in FlowIds(fs) : \A st \in Stages :
        IsTerminal(fs[i].ckpt, st) => \A k \in OutputsUpTo(st) : Holds(fs[i].ckpt, k)

\* ------------------------------------------------------------------- C8
\* C8: a slot's checkpoint file is never a truncated or partial record.
C8_AtomicWrite == \A i \in FlowIds(fs) : fs[i].ckpt.kind # "partial"

\* ------------------------------------------------------------------- C9
\* the root with every undecodable checkpoint.json removed
Absent(f) ==
    [i \in 1..Len(f) |-> IF f[i].ckpt.kind = "partial" THEN [f[i] EXCEPT !.ckpt = NoCkpt]
                         ELSE f[i]]

Undecodable(f) == {i \in FlowIds(f) : f[i].ckpt.kind = "partial"}

AfterLost(S) ==
    /\ runNo >= 2
    /\ resume
    /\ use_visual = prev.use_visual
    /\ S \in prev.lost
    /\ result = "success"

\* the complete checkpoints of the root that hold the output of stage S
Carriers(f, S) ==
    {i \in FlowIds(f) :
        /\ f[i].ckpt.kind = "ok"
        /\ CASE S = "step1" -> Holds(f[i].ckpt, "analysis_results")
             [] S = "step2" -> Holds(f[i].ckpt, "visual_results")
             [] S = "step3" -> Holds(f[i].ckpt, "synthesized")
             [] S = "step4" -> Holds(f[i].ckpt, "schema")
             [] S = "step5" -> Holds(f[i].ckpt, "code")
             [] S = "step6" -> Holds(f[i].ckpt, "validation")
             [] S = "step7" -> Holds(f[i].ckpt, "markdown_converter_code")}

\* C10 as stated: a stage whose checkpoint save failed is executed again by
\* the next resumed run.
C10_AsStated == \A S \in Stages : AfterLost(S) => S \in executed

\* markdown conversion runs only on the extraction results of step 6.5
HasInput(S) == S = "step7" => fs[flow_id["step6"]].extraction_results > 0

\* C10, amended: a stage whose checkpoint save failed is executed again by the
\* next resumed run when no complete checkpoint in the root holds its output
\* (markdown conversion: when the slot of code validation holds extraction
\* results); when the cumulative checkpoint of a later stage holds the output,
\* the resume scan may restore it from there and the stage is then not
\* executed again.
C10_FailedToPersist ==
    \A S \in Stages :
        (AfterLost(S) /\ Carriers(startFs, S) = {} /\ HasInput(S)) => S \in executed

\* C10 witness: the save of the code_validated checkpoint failed, no
\* checkpoint holds the validation, and the next resumed run has validated
\* the code again
C10_Witness ==
    /\ AfterLost("step6")
    /\ Carriers(startFs, "step6") = {}
    /\ "step6" \in executed

\* ------------------------------------------------------------------ C11
\* the flow directories a step creates
Created == FlowIds(fs') \ FlowIds(fs)

\* one more than the largest slot id present, 1 in an empty root
OnePastLargest(f) == IF FlowIds(f) = {} THEN 1 ELSE Max(FlowIds(f)) + 1

DigitChar(d) ==
    CASE d = 0 -> "0" [] d = 1 -> "1" [] d = 2 -> "2" [] d = 3 -> "3" [] d = 4 -> "4"
      [] d = 5 -> "5" [] d = 6 -> "6" [] d = 7 -> "7" [] d = 8 -> "8" [] d = 9 -> "9"

\* the decimal spelling of an integer, as in f'flow{flow_id}'
RECURSIVE Decimal(_)
Decimal(n) ==
    IF n < 0 THEN <<"-">> \o Decimal(0 - n)
    ELSE IF n < 10 THEN <<DigitChar(n)>>
    ELSE Decimal(n \div 10) \o <<DigitChar(n % 10)>>

\* the directories named flow<integer>
NumberedDirs(r) ==
    {e \in r.entries : e.is_dir /\ e.head = "flow" /\ ParseInt(e.tail).ok}

\* the listing without the entries that are no such directory
OnlyNumberedDirs(r) == [r EXCEPT !.entries = NumberedDirs(r)]

\* C12: get_next_flow_id returns 1 for a missing root or a root without a
\* directory flow<integer>, otherwise one more than the largest such integer;
\* other entries do not change the result; no directory flow<result> exists.
C12_NextFlowId ==
    next_id.called =>
        /\ (~root.exists \/ NumberedDirs(root) = {}) => next_id.id = 1
        /\ NumberedDirs(root) # {} =>
               /\ \A e \in NumberedDirs(root) : ParseInt(e.tail).val < next_id.id
               /\ \E e \in NumberedDirs(root) : ParseInt(e.tail).val + 1 = next_id.id
        /\ next_id.id = get_next_flow_id_of(OnlyNumberedDirs(root))
        /\ ~\E e \in root.entries :
               e.is_dir /\ e.head = "flow" /\ e.tail = Decimal(next_id.id)

\* C12 witness: the root holds the directory flow2 and a regular file whose
\* name is flow<a larger integer>, and the call returned 3
C12_Witness ==
    /\ next_id.called
    /\ next_id.id = 3
    /\ \E e \in root.entries : e.is_dir /\ e.head = "flow" /\ e.tail = <<"2">>
    /\ \E e \in root.entries : ~e.is_dir /\ e.head = "flow" /\ e.tail = <<"1", "2">>

\* ------------------------------------------------------------------ C13
Min(S) == CHOOSE x \in S : \A y \in S : x <= y

Matching(f, step) == {i \in WithCheckpoint(f) : StepOf(f, i) = step}

MatchingKey(f, k) == Matching(f, StepIdentity(k))

\* the root without the checkpoints that have a smaller slot of the same step
SmallestOfEach(f) ==
    [i \in 1..Len(f) |->
        IF i \in WithCheckpoint(f) /\ \E j \in Matching(f, StepOf(f, i)) : j < i
        THEN [f[i] EXCEPT !.ckpt = NoCkpt] ELSE f[i]]

\* the root without the checkpoints that have a larger slot of the same step
LargestOfEach(f) ==
    [i \in 1..Len(f) |->
        IF i \in WithCheckpoint(f) /\ \E j \in Matching(f, StepOf(f, i)) : j > i
        THEN [f[i] EXCEPT !.ckpt = NoCkpt] ELSE f[i]]

ValidatedFlows(f) == {i \in WithCheckpoint(f) : StepOf(f, i) \in {"code_validated", "code"}}

\* a step that took its result from the slot its scan selected
Scanned == pc = "scan" /\ pc' = "s1" /\ resume
Step5Retries ==
    /\ pc = "s5" /\ (pc' = "s6" \/ executed' # executed)
    /\ bag.code = NoCode /\ IncompleteStep5Flows(fs) # {}
Step6Reuses == pc = "s6" /\ pc' = "inter" /\ executed' = executed
Step7Reuses ==
    /\ pc = "s7" /\ pc' = "ret" /\ executed' = executed
    /\ bag'.markdown_converter_code # None /\ bag'.content_analysis # None

\* C13 as stated: every scan selects the smallest matching slot, and the
\* output bag takes that slot's data.
C13_AsStated ==
    [][/\ Scanned =>
             /\ \A k \in StepKeys :
                    completed_steps'[k] =
                        IF MatchingKey(fs, k) = {} THEN 0 ELSE Min(MatchingKey(fs, k))
             /\ bag' = LoadFlows(SmallestOfEach(fs), 1, NoData)
       /\ Step5Retries => flow_id'["step5"] = Min(IncompleteStep5Flows(fs))
       /\ Step6Reuses => flow_id'["step6"] = Min(ValidatedFlows(fs))
       /\ Step7Reuses => flow_id'["step7"] = Min(Matching(fs, "markdown_converted"))]_vars

\* C13: when several slots hold a checkpoint of the same step, the mapping of
\* steps to slots and the scans of steps 5, 6 and 7 select one of them (the
\* one the directory listing yields, not necessarily the smallest), and the
\* output bag takes the data of the slot with the largest id.
C13_LargestSlotWins ==
    [][/\ Scanned =>
             /\ \A k \in StepKeys :
                    IF MatchingKey(fs, k) = {} THEN completed_steps'[k] = 0
                    ELSE completed_steps'[k] \in MatchingKey(fs, k)
             /\ bag' = LoadFlows(LargestOfEach(fs), 1, NoData)
       /\ Step5Retries => flow_id'["step5"] \in IncompleteStep5Flows(fs)
       /\ Step6Reuses =>
             /\ flow_id'["step6"] \in ValidatedFlows(fs)
             /\ bag'.code = Get(load_checkpoint(fs[flow_id'["step6"]].ckpt), "code")
       /\ Step7Reuses =>
             /\ flow_id'["step7"] \in Matching(fs, "markdown_converted")
             /\ bag'.markdown_converter_code =
                    Get(load_checkpoint(fs[flow_id'["step7"]].ckpt),
                        "markdown_converter_code")]_vars

\* C13 witness: the resume scan met two slots of the same step whose data
\* differ, and the bag holds what the larger slot recorded
C13_Witness ==
    /\ pc = "s1"
    /\ resume
    /\ \E i, j \in WithCheckpoint(fs) :
          /\ i < j
          /\ StepOf(fs, i) = StepOf(fs, j)
          /\ \A m \in Matching(fs, StepOf(fs, i)) : m <= j
          /\ \A m \in WithCheckpoint(fs) : m <= j
          /\ load_checkpoint(fs[i].ckpt).data # load_checkpoint(fs[j].ckpt).data
          /\ bag = ApplyCheckpoint(bag, load_checkpoint(fs[j].ckpt))
          /\ bag # ApplyCheckpoint(bag, load_checkpoint(fs[i].ckpt))

\* ------------------------------------------------------------------ C14
\* the work of stage S begins
Begins(S) == S \in executed' \ executed

\* the stage executed last in this invocation
LastExecuted ==
    CHOOSE P \in executed : \A Q \in executed : StageNo(Q) <= StageNo(P)

\* the slot of stage P holds a decodable checkpoint written by this invocation
Durable(P) ==
    /\ flow_id[P] \in FlowIds(fs)
    /\ load_checkpoint(fs[flow_id[P]].ckpt).kind = "ok"
    /\ load_checkpoint(fs[flow_id[P]].ckpt).ts = runNo

InOrder(S) == \A Q \in executed : StageNo(Q) < StageNo(S)

\* C14 as stated: the stages execute in the fixed order, and the work of a
\* stage begins only when the checkpoint of the stage executed before it is
\* durably on disk.
C14_AsStated ==
    [][\A S \in Stages :
          Begins(S) => /\ InOrder(S)
                       /\ executed # {} => Durable(LastExecuted)]_vars

\* C14: the stages execute in the fixed order, and the work of a stage begins
\* only when the checkpoint of the stage executed before it is durably on disk
\* or its save failed (the failure is logged and the invocation goes on).
C14_StageOrdering ==
    [][\A S \in Stages :
          Begins(S) => /\ InOrder(S)
                       /\ executed # {} =>
                              Durable(LastExecuted) \/ LastExecuted \in lost]_vars

\* C14 witness: code generation has begun after the schema checkpoint of this
\* invocation was written, and step 2 was not enabled
C14_Witness ==
    /\ "step5" \in executed
    /\ "step2" \notin executed
    /\ lost = {}
    /\ load_checkpoint(fs[flow_id["step4"]].ckpt).step = "schema"
    /\ load_checkpoint(fs[flow_id["step4"]].ckpt).ts = runNo

\* ------------------------------------------------------------------ C15
\* a checkpoint written with the terminal identity of some stage
WrittenTerminal(ck) == \E st \in Stages : IsTerminal(ck, st)

\* the stage at work retries in slot i, which holds its retry marker
RetryIn(i) == \E st \in Stages : StageAt = st /\ i \in MarkerSlots(fs, st)

\* C15: a checkpoint written with a terminal identity is never changed to
\* another identity, and a checkpoint of an existing slot is replaced only by a
\* retry in a slot that holds a retry marker.
C15_TerminalIdentityStable ==
    [][\A i \in FlowIds(fs) :
          /\ WrittenTerminal(fs[i].ckpt) => fs'[i].ckpt.step = fs[i].ckpt.step
          /\ (fs[i].ckpt.kind # "none" /\ fs'[i].ckpt # fs[i].ckpt) => RetryIn(i)]_vars

\* C15 witness: the second invocation replaced the retry marker of step 5 in
\* its slot by a code_generated checkpoint and left the terminal checkpoints
\* of the first invocation as they were
C15_Witness ==
    /\ runNo = 2
    /\ \E i \in MarkerSlots(startFs, "step5") :
          IsTerminal(fs[i].ckpt, "step5") /\ fs[i].ckpt.ts = 2
    /\ \E i \in FlowIds(startFs) : WrittenTerminal(startFs[i].ckpt)
    /\ \A i \in FlowIds(startFs) :
          WrittenTerminal(startFs[i].ckpt) => fs[i].ckpt = startFs[i].ckpt

\* ------------------------------------------------------------------ C16
\* the stage whose except clause ran in this invocation
FailedStage ==
    IF raisedAt # "none" THEN raisedAt
    ELSE IF marker # "none" /\ "step7" \in executed THEN "step7"
    ELSE "none"

WrittenNow == {i \in FlowIds(fs) : fs[i].ckpt.kind = "ok" /\ fs[i].ckpt.ts = runNo}

RecordsEmptyVisual(ck) ==
    "visual_results" \in ck.keys /\ ck.data["visual_results"] = EmptyList

\* visual analysis was neither invoked nor given a slot
NoVisualAnalysis ==
    /\ "step2" \notin executed
    /\ flow_id["step2"] = 0
    /\ \A i \in WrittenNow : fs[i].ckpt.step # "visual_analysis"

\* the checkpoints of synthesis, schema generation, code generation and code
\* validation, their failure checkpoints included
FromStep3To6(ck) ==
    /\ ck.step \in {"synthesized", "schema", "code_generated", "code_validated"}
    /\ ck.failed # "markdown_conversion_failed"

\* C17 as stated: with visual analysis disabled it is not invoked and gets no
\* slot, and every checkpoint the run writes records visual_results as the
\* empty list.
C17_AsStated ==
    (runNo >= 1 /\ ~use_visual) =>
        /\ NoVisualAnalysis
        /\ \A i \in WrittenNow : RecordsEmptyVisual(fs[i].ckpt)

\* C17: with visual analysis disabled it is not invoked and gets no slot;
\* every checkpoint that synthesis, schema generation, code generation and code
\* validation write records visual_results as the empty list; the checkpoints
\* of text analysis and of markdown conversion record no visual_results.
C17_GapTolerance ==
    (runNo >= 1 /\ ~use_visual) =>
        /\ NoVisualAnalysis
        /\ \A i \in WrittenNow :
              IF FromStep3To6(fs[i].ckpt) THEN RecordsEmptyVisual(fs[i].ckpt)
              ELSE "visual_results" \notin fs[i].ckpt.keys
        /\ \A st \in {"step3", "step4", "step5", "step6"} :
              (st \in executed /\ flow_id[st] \in WrittenNow) =>
                  RecordsEmptyVisual(fs[flow_id[st]].ckpt)

\* C17 witness: a run without visual analysis has executed schema generation
\* and code generation and written their checkpoints
C17_Witness ==
    /\ ~use_visual
    /\ {"step4", "step5"} \subseteq executed
    /\ {flow_id["step4"], flow_id["step5"]} \subseteq WrittenNow
    /\ RecordsEmptyVisual(fs[flow_id["step5"]].ckpt)

\* ------------------------------------------------------------------ C18
\* stage st has failed in this invocation: its except clause ran, or an
\* exception left it, or (code generation) every attempt of the collaborator
\* raised and the fallback template was returned
StageFailed(st) ==
    \/ FailedStage = st
    \/ st = "step5" /\ "step5" \in executed /\ bag.code.fallback

\* C18: when markdown conversion raises, the run still returns success and the
\* checkpoints of stages 1..6 are as they were; when a non-optional stage
\* fails, the run ends.
C18_OptionalFailureNeverAborts ==
    /\ (StageFailed("step7") /\ pc = "idle" /\ result # "killed") =>
           /\ result = "success"
           /\ \A st \in Stages \ {"step7"} :
                  flow_id[st] # 0 =>
                      /\ flow_id[st] # flow_id["step7"]
                      /\ fs[flow_id[st]].ckpt.failed # "markdown_conversion_failed"
    /\ \A st \in MandatoryStages :
           StageFailed(st) => pc = "idle" /\ result = "raised" /\ raisedAt = st

\* ------------------------------------------------------------------ C19
\* C19: an input that yields no document makes process_input return an error
\* result: no stage runs, no flow directory is created, no checkpoint is written.
C19_EmptyInputIsError ==
    (input # NoInput /\ html_files = 0) =>
        /\ pc = "idle"
        /\ result = "error"
        /\ executed = {}
        /\ fs = startFs

\* ------------------------------------------------------------------ C20
\* an output produced by the running invocation, or none yet
OfThisRun(k) ==
    CASE k = "code" -> bag[k].gen \in {0, runNo}
      [] k = "visual_results" -> bag[k] \in {None, EmptyList, runNo}
      [] OTHER -> bag[k] \in {None, runNo}

\* C20: with resume disabled no stage takes its result or its slot from a
\* checkpoint left by an earlier run: every output in hand was produced by the
\* running invocation, in a slot it created.
C20_NoResumeIgnoresCheckpoints ==
    (runNo >= 1 /\ ~resume) =>
        /\ \A k \in DataKeys : OfThisRun(k)
        /\ \A st \in Stages : flow_id[st] # 0 => Fresh(flow_id[st])
\* ------------------------------------------------------------------ C21
\* the interface the docstring of _execute_extraction_code requires of the
\* generated module
Conforming(m) ==
    /\ m.loads /\ m.class /\ "schema" \in m.init.params /\ m.op
    /\ m.params = {"html_content", "file_path"}
    /\ m.annotation \in {"typing.Dict[str, typing.Any]", "<class 'dict'>"}

\* the element of the interface the executor reaches first that the module
\* does not have
MissingElement(m) ==
    CASE ~m.class -> "HTMLExtractor"
      [] "schema" \notin m.init.params -> "__init__"
      [] ~m.op -> "extract"
      [] m.params # {"html_content", "file_path"} -> "parameters"
      [] OTHER -> "annotation"

\* the module the extraction executor loaded breaks the contract, and its
\* constructor could be called
ContractViolated ==
    /\ loader.kind = "extraction"
    /\ loader.docs # <<>> \/ loader.calls # <<>>
    /\ loader.mod.loads
    /\ ~Conforming(loader.mod)
    /\ ~loader.mod.class \/ "schema" \notin loader.mod.init.params
         \/ ~(loader.mod.init_raises \/ loader.mod.init.required # {"schema"})

\* C21: when the generated extraction module breaks the interface contract
\* (no HTMLExtractor class, no schema parameter, no extract, a signature or
\* return annotation that does not conform), the extraction stage fails with
\* an error naming the missing element, writes no result file, and the step
\* that called it records a failure instead of going on as after a success
C21_ContractViolationFailsStage ==
    (loader.pc = "handled" /\ ContractViolated) =>
        /\ loader.ret = "None"
        /\ loader.error = MissingElement(loader.mod)
        /\ loader.files = {}
        /\ loader.log = "error"

\* ------------------------------------------------------------------ C22
AllChecks == {"class", "init", "operation", "parameters", "annotation"}

\* C22 as stated: no operation of the generated code, constructor included, is
\* invoked before every interface check has passed
C22_AsStated ==
    \A i \in 1..Len(loader.calls) : loader.calls[i].passed = AllChecks

\* C22: the operation (extract, convert) is invoked only after every interface
\* check has passed, on a module that has the class, the operation, an accepted
\* parameter and a return annotation; the constructor is invoked after the
\* class and constructor checks and before the checks of the operation
C22_VerificationPrecedesInvocation ==
    \A i \in 1..Len(loader.calls) :
        LET c == loader.calls[i]
        IN /\ loader.mod.class
           /\ InitAccepted(loader.kind, loader.mod.init)
           /\ IF c.op = "__init__"
              THEN i = 1 /\ c.passed = {"class", "init"}
              ELSE /\ i > 1
                   /\ c.op = OperationName(loader.kind)
                   /\ c.passed = AllChecks
                   /\ loader.mod.op
                   /\ ParametersAccepted(loader.kind, loader.mod.params)
                   /\ loader.mod.annotation # NoAnnotation

\* both executors have run the operation on a file after the checks
C22_Witness ==
    /\ loader.pc = "handled"
    /\ loader.kind = "markdown"
    /\ loader.processed = 1
    /\ Len(loader.calls) = 3

\* ------------------------------------------------------------------ C23
\* a first invocation on an empty output root has returned success and no
\* step of it met a failure
FirstRunAllSucceeded ==
    pc = "idle" /\ result = "success" /\ runNo = 1 /\ faults = 0

\* the extraction result files under the output root
ResultFiles(f) == [i \in 1..Len(f) |-> f[i].extraction_results]

RECURSIVE Sum(_)
Sum(q) == IF q = <<>> THEN 0 ELSE Head(q) + Sum(Tail(q))

\* the step of the checkpoint in the highest-numbered slot that has one
LastCheckpoint(f) ==
    IF WithCheckpoint(f) = {} THEN "" ELSE StepOf(f, Max(WithCheckpoint(f)))

Artifacts == {"analysis_results", "visual_results", "synthesized", "schema", "code"}

\* a step of a running invocation, after the resume scan
StageStep == pc \notin {"idle", "scan"} /\ runNo' = runNo

\* artifact k is in the Output Bag and this step leaves it as it is
Kept(k) == bag[k] # Missing(k) => bag'[k] = bag[k]

\* C24 as stated: once an artifact is in the Output Bag, no later stage of the
\* same run changes its value
C24_AsStated == [][StageStep => \A k \in Artifacts : Kept(k)]_vars

\* what step 5 and step 6 may do to the code in the Output Bag: step 5, when
\* it skips generation, reads the code file of the slot it takes for its own;
\* step 6 puts the validated text (marked or fixed) of the same generated code
\* in its place, or the code of the code_validated checkpoint it reuses
CodeRewritten ==
    \/ /\ pc = "s5"
       /\ "step5" \notin executed'
       /\ bag'.code = fs'[flow_id'["step5"]].code_file
    \/ /\ pc = "s6"
       /\ "step6" \in executed'
       /\ bag'.code.gen = bag.code.gen
       /\ bag'.code.fallback = bag.code.fallback
       /\ bag'.code.validated \in {"marked", "fixed"}
    \/ /\ pc = "s6"
       /\ "step6" \notin executed'
       /\ bag'.code = Get(load_checkpoint(fs[flow_id'["step6"]].ckpt), "code")

\* the code_validated checkpoint a step writes records the code as it is in
\* the Output Bag after the step
RecordsBagCode ==
    \A i \in 1..Len(fs') :
        (/\ i > Len(fs) \/ fs'[i].ckpt # fs[i].ckpt
         /\ fs'[i].ckpt.kind = "ok"
         /\ "code" \in fs'[i].ckpt.keys) => fs'[i].ckpt.data.code = bag'.code

\* C24: within a run, analysis_results, synthesized and schema, once in the
\* Output Bag, are never changed; visual_results is replaced only by the empty
\* list, in a run without visual analysis; code is replaced only by step 5
\* reading its code file and by step 6 putting the validated code in its
\* place, and the checkpoints written later record that code
C24_BagStableButCode ==
    [][StageStep =>
         /\ Kept("analysis_results") /\ Kept("synthesized") /\ Kept("schema")
         /\ Kept("visual_results")
              \/ (pc = "s2" /\ ~use_visual /\ bag'.visual_results = EmptyList)
         /\ Kept("code") \/ CodeRewritten
         /\ RecordsBagCode]_vars

\* code validation has replaced the generated code by the validated text and
\* its checkpoint records the validated text
C24_Witness ==
    /\ pc = "inter"
    /\ "step6" \in executed
    /\ bag.code.validated = "marked"
    /\ fs[flow_id["step6"]].ckpt.kind = "ok"
    /\ fs[flow_id["step6"]].ckpt.data.code = bag.code
    /\ \E i \in 1..Len(fs) : /\ fs[i].ckpt.step = "code_generated"
                             /\ fs[i].ckpt.data.code.validated = "no"
                             /\ fs[i].ckpt.data.code.gen = bag.code.gen

\* ------------------------------------------------------------------ C25
\* the output a terminal checkpoint of text analysis or schema generation
\* records for its stage
RecordedOutput(ck) ==
    IF ck.step = "text_analysis" THEN ck.data.analysis_results ELSE ck.data.schema

\* C25: no terminal checkpoint of text analysis (text_analysis) or of schema
\* generation (schema) records the error payload of a failed collaborator call
\* as the output of the stage, so that a resumed run executes the stage again
C25_CollaboratorErrorNotCheckpointed ==
    \A i \in 1..Len(fs) :
        IsTerminal(fs[i].ckpt, "step1") \/ IsTerminal(fs[i].ckpt, "step4") =>
            ~IsErrorPayload(RecordedOutput(fs[i].ckpt))

\* ------------------------------------------------------------------ C26
\* the collaborator of text analysis or of schema generation failed in this
\* invocation and the stage took the error payload for its output
CollaboratorFailed(st) ==
    \/ st = "step1" /\ "step1" \in executed /\ IsErrorPayload(bag.analysis_results)
    \/ st = "step4" /\ "step4" \in executed /\ IsErrorPayload(bag.schema)

\* the process has ended by main returning or by an exception leaving main
Exited == pc = "idle" /\ runNo > 0 /\ result # "killed"

\* C26: main returns 0 only when process_input returned a success result, and
\* every run in which process_input returned an error result or a mandatory
\* stage failed ends the process with a status other than 0
C26_ExitStatus ==
    Exited =>
        /\ ExitStatus(result) = 0 => result = "success"
        /\ result = "error" => ExitStatus(result) # 0
        /\ \A st \in MandatoryStages :
               StageFailed(st) \/ CollaboratorFailed(st) => ExitStatus(result) # 0


\* ------------------------------------------------------------------ C27
\* the last call was load_step_result with the name and filename of the last
\* save_step_result, which succeeded
LoadedAfterSave ==
    /\ store.saved.ok
    /\ store.answer.op = "load"
    /\ store.answer.name = store.saved.name
    /\ store.answer.filename = store.saved.filename

\* step_result_exists says yes exactly when load_step_result returns a value
ExistsIffLoads ==
    \A name \in StepNames, filename \in Filenames :
        step_result_exists(store.files, name, filename)
            <=> load_step_result(store.files, name, filename) # NoneValue

\* C27 as stated: for every name, optional filename and value that is a dict,
\* a list or a str, load_step_result after a successful save_step_result
\* returns an equal value, and step_result_exists is true exactly when
\* load_step_result does not return None
C27_AsStated ==
    /\ (LoadedAfterSave /\ store.saved.value.type \in {"dict", "list", "str"}) =>
           store.answer.value = store.saved.value
    /\ ExistsIffLoads

\* the file name of the last save ends in .json
JsonPath == EndsWith(PathOf(store.saved.name, store.saved.filename), ".json")

\* C27: load_step_result after a successful save_step_result returns an equal
\* value when the value is a dict or a list and the file name (given or
\* default) ends in .json, and when the value is a str without carriage
\* return and the file name does not end in .json; step_result_exists is true
\* whenever load_step_result does not return None
C27_StepResultRoundTrip ==
    /\ (/\ LoadedAfterSave
        /\ \/ store.saved.value.type \in {"dict", "list"} /\ JsonPath
           \/ /\ store.saved.value.type = "str"
              /\ ~Contains(store.saved.value.body, "\r")
              /\ ~JsonPath) => store.answer.value = store.saved.value
    /\ \A name \in StepNames, filename \in Filenames :
           load_step_result(store.files, name, filename) # NoneValue =>
               step_result_exists(store.files, name, filename)

\* the generated code saved as text under extraction_code.py and loaded
\* again, after a schema saved under the default name
C27_Witness ==
    /\ LoadedAfterSave
    /\ store.saves = 2
    /\ store.saved.value = [type |-> "str", body |-> "a\nb"]
    /\ store.saved.filename = "extraction_code.py"
    /\ store.answer.value = store.saved.value
    /\ "step4_schema_result.json" \in DOMAIN store.files


\* ------------------------------------------------------------------ C28
HoldsArtifacts(slot) ==
    \/ slot.step_result # None \/ slot.schema_file # None \/ slot.code_file # NoCode
    \/ slot.extraction_results > 0 \/ slot.intermediate # ""

\* the slots of f that hold artifact files and no checkpoint file
Uncheckpointed(f) ==
    {i \in 1..Len(f) : f[i].dir /\ f[i].ckpt.kind = "none" /\ HoldsArtifacts(f[i])}

\* this step puts the content of a file of slot i into the Output Bag
ReadsArtifact(i) ==
    /\ pc = "s5" /\ pc' = "s6"
    /\ "step5" \notin executed'
    /\ flow_id'["step5"] = i
    /\ fs[i].code_file # NoCode
    /\ bag'.code = fs[i].code_file
    /\ bag'.code # bag.code

\* C28: on a resumed run, a slot that the run found with artifact files and
\* without a checkpoint file contributes nothing to the Output Bag (no file of
\* it is read in place of a stage's output) and is not taken for the slot of
\* a completed stage
C28_NoCheckpointNotStarted ==
    [][(resume /\ StageStep) =>
         \A i \in Uncheckpointed(startFs) :
             fs[i].ckpt.kind = "none" =>
                 /\ ~ReadsArtifact(i)
                 /\ \A st \in StepKeys : completed_steps[st] # i]_vars


(* ---- C29: a deleted slot directory ------------------------------------- *)
\* the place of the running invocation and of a stage in the order the
\* pipeline goes through them
Position ==
    CASE pc = "s1" -> 1 [] pc = "s2" -> 2 [] pc = "s3" -> 3 [] pc = "s4" -> 4
      [] pc = "s5" -> 5 [] pc = "s6" -> 6 [] pc = "inter" -> 7 [] pc = "s7" -> 8
      [] pc = "ret" -> 9 [] OTHER -> 0

PlaceOf(stage) == IF stage = "step7" THEN 8 ELSE StageNo(stage)

\* the resumed invocation that follows the removal d has gone past the stage
\* whose terminal checkpoint the removed slot held
PassedAfterDelete(d, stage) ==
    /\ d.step = TerminalIdentity(stage)
    /\ runNo = d.run + 1
    /\ resume
    /\ stage \in Enabled(use_visual)
    /\ Position > PlaceOf(stage)

\* C29 as stated: when a slot directory was deleted between two runs, the
\* next resumed run executes the stage that slot held again.
C29_AsStated ==
    \A d \in deleted : \A stage \in Stages :
        PassedAfterDelete(d, stage) => stage \in executed


\* the local variable a stage produces, as the checkpoints name it
ProducedKey(stage) ==
    CASE stage = "step1" -> "analysis_results"
      [] stage = "step2" -> "visual_results"
      [] stage = "step3" -> "synthesized"
      [] stage = "step4" -> "schema"
      [] stage = "step5" -> "code"
      [] OTHER -> "validation"

\* the resume scan over the checkpoints of f leaves the stage's output set
Restores(f, stage) ==
    LoadFlows(f, 1, NoData)[ProducedKey(stage)] # Missing(ProducedKey(stage))

\* a checkpoint the reuse scan of step 6 or of step 7 looks for is in f
Remains(f, stage) ==
    \E i \in WithCheckpoint(f) :
        IF stage = "step6" THEN StepOf(f, i) \in {"code_validated", "code"}
        ELSE StepOf(f, i) = "markdown_converted"

\* C29 amended: when a slot directory was deleted between two runs, the next
\* resumed run executes the stage that slot held again only when the
\* checkpoints that remain do not give that stage's output back.  Text
\* analysis, visual analysis, synthesis, schema generation and code generation
\* are executed again exactly when the resume scan over the remaining
\* checkpoints leaves their output unset, and are skipped, although the slot is
\* gone, when it restores the output; code validation is executed again when
\* no code_validated checkpoint remains, and Markdown conversion when no
\* markdown_converted checkpoint remains and there are extraction results.
C29_DeletedSlotReExecutedUnlessRestored ==
    \A d \in deleted : \A stage \in Stages :
        PassedAfterDelete(d, stage) =>
            CASE stage \in StepKeys ->
                     (stage \in executed <=> ~Restores(startFs, stage))
              [] stage = "step6" ->
                     (~Remains(startFs, stage) => stage \in executed)
              [] OTHER ->
                     (~Remains(startFs, stage) /\ fs[flow_id["step6"]].extraction_results > 0
                          => stage \in executed)

\* C29 witness: the slot of text analysis was deleted, the resumed run that
\* followed skipped text analysis because a later checkpoint remained, and
\* went on
C29_Witness ==
    \E d \in deleted :
        /\ PassedAfterDelete(d, "step1")
        /\ Restores(startFs, "step1")
        /\ "step1" \notin executed
        /\ ~fs[d.id].ckpt.kind = "ok"
        /\ pc = "ret"


(* ---- C30: the slot of a skipped stage ---------------------------------- *)
PcOf(stage) ==
    CASE stage = "step1" -> "s1" [] stage = "step2" -> "s2" [] stage = "step3" -> "s3"
      [] stage = "step4" -> "s4" [] stage = "step5" -> "s5" [] stage = "step6" -> "s6"
      [] OTHER -> "s7"

\* this step skips the stage because its output is already in the Output Bag
SkippedFromBag(stage) ==
    /\ pc = PcOf(stage)
    /\ pc' \notin {pc, "idle"}
    /\ stage \in Enabled(use_visual)
    /\ bag[ProducedKey(stage)] # Missing(ProducedKey(stage))

\* the stages of the running invocation that have a slot
Associated == {st \in Stages : flow_id[st] # 0}

\* C30: when a stage is skipped because its outputs are already in the Output
\* Bag, the slot the run associates with that stage holds the checkpoint with
\* that stage's terminal identity, and no two different stages of the run are
\* associated with the same slot.
C30_SkippedStageSlot ==
    [][\A stage \in StepKeys :
           SkippedFromBag(stage) =>
               /\ IsTerminal(fs'[flow_id'[stage]].ckpt, stage)
               /\ \A other \in Associated' \ {stage} :
                      flow_id'[other] # flow_id'[stage]]_vars


\* ------------------------------- concurrent runs on one output root
\* Each process runs the else branch of its stages in order: it asks for the
\* next flow id, creates the directory, does the stage's work and saves the
\* stage's checkpoint. Nothing in Settings or CheckpointManager takes a lock
\* or creates the directory exclusively, so the steps of the two processes
\* interleave freely.
StageName(n) == CASE n = 1 -> "step1" [] n = 2 -> "step2" [] n = 3 -> "step3"
                  [] n = 4 -> "step4" [] OTHER -> "step5"

ProcsFrame ==
    UNCHANGED <<fs, pc, runNo, faults, use_visual, resume, bag, completed_steps, flow_id,
                result, executed, startFs, prev, raisedAt, marker, lost, root, next_id,
                input, html_files, loader, store, deleted, codegen, convert>>

\* mutant: the allocation waits while the other process holds an id whose
\* directory it has not created yet
ProcGetNextFlowId_Locked(p) ==
    /\ procs.pc[p] = "get_next_flow_id"
    /\ procs.stage[p] <= MaxStages
    /\ \A q \in Procs \ {p} : procs.pc[q] # "get_flow_output_dir"
    /\ procs' = [procs EXCEPT !.listing[p] = FlowIds(procs.root),
                              !.flow_id[p] = get_next_flow_id(procs.root),
                              !.pc[p] = "get_flow_output_dir"]
    /\ ProcsFrame

\* stepN_flow_id = Settings.get_next_flow_id(): the id is computed from the
\* directories present at the time of the call, and nothing is reserved
ProcGetNextFlowId(p) ==
    /\ procs.pc[p] = "get_next_flow_id"
    /\ procs.stage[p] <= MaxStages
    /\ procs' = [procs EXCEPT !.listing[p] = FlowIds(procs.root),
                              !.flow_id[p] = get_next_flow_id(procs.root),
                              !.pc[p] = "get_flow_output_dir"]
    /\ ProcsFrame

\* stepN_output_dir = Settings.get_flow_output_dir(stepN_flow_id) and
\* CheckpointManager(stepN_output_dir): mkdir with exist_ok=True, which
\* succeeds on a directory the other process created
ProcGetFlowOutputDir(p) ==
    /\ procs.pc[p] = "get_flow_output_dir"
    /\ procs' = [procs EXCEPT !.root = get_flow_output_dir(procs.root, procs.flow_id[p]),
                              !.pc[p] = "save_checkpoint"]
    /\ ProcsFrame

\* stepN_checkpoint.save_checkpoint(...): open(checkpoint_path, 'w') replaces
\* whatever checkpoint.json the directory holds; the process goes on to its
\* next stage
ProcSaveCheckpoint(p) ==
    /\ procs.pc[p] = "save_checkpoint"
    /\ LET id == procs.flow_id[p]
           ts == Len(procs.writes) + 1
           new == Checkpoint(TerminalIdentity(StageName(procs.stage[p])), ts, {}, NoData, "none")
       IN procs' = [procs EXCEPT
              !.root[id].ckpt = save_checkpoint(@, new, "ok"),
              !.writes = Append(@, [proc |-> p, flow_id |-> id, stage |-> procs.stage[p]]),
              !.stage[p] = @ + 1,
              !.pc[p] = "get_next_flow_id"]
    /\ ProcsFrame

NextProcs ==
    \/ \E p \in Procs : ProcGetNextFlowId(p)
    \/ \E p \in Procs : ProcGetFlowOutputDir(p)
    \/ \E p \in Procs : ProcSaveCheckpoint(p)

SpecProcs == Init /\ [][NextProcs]_vars

(* ---- C31: failure-marked checkpoints on resume ------------------------- *)
\* the output root with the failure-marked checkpoints taken out
WithoutMarkers(f) ==
    [i \in 1..Len(f) |-> IF i \in AnyMarkerSlots(f) THEN [f[i] EXCEPT !.ckpt = NoCkpt]
                         ELSE f[i]]

\* C31: the scan of a resumed run maps no step to a slot whose checkpoint
\* carries a failure flag, and every Output Bag entry that the checkpoints
\* without a failure flag supply is still set after the scan.
C31_FailureMarkNeverCompleted ==
    [][Scanned =>
          /\ \A k \in StepKeys : completed_steps'[k] \notin AnyMarkerSlots(fs)
          /\ \A k \in DataKeys :
                 LoadFlows(WithoutMarkers(fs), 1, NoData)[k] # Missing(k)
                     => bag'[k] # Missing(k)]_vars


(* ---- C32: bounded retry with exponential backoff ----------------------- *)
\* the calls made so far that did not end the function
FailedCalls == {i \in 1..Len(codegen.calls) : AttemptRaises(codegen.calls[i])}

RECURSIVE Doubling(_, _)
\* the waits d, 2d, 4d, ... , n of them
Doubling(d, n) == IF n = 0 THEN <<>> ELSE <<d>> \o Doubling(2 * d, n - 1)

\* C32: generate_extraction_code makes at most 3 collaborator calls, returns
\* at the first call that succeeds, waits 2 then 4 seconds between
\* consecutive failed attempts, and always terminates.
C32_BoundedRetryBackoff ==
    /\ [](/\ Len(codegen.calls) <= 3
          /\ \A i \in 1..Len(codegen.calls) :
                 i < Len(codegen.calls) => i \in FailedCalls
          /\ codegen.pc \in {"call", "sleep"} => FailedCalls = 1..Len(codegen.calls)
          /\ codegen.pc = "done" =>
                 IF Len(codegen.calls) \in FailedCalls
                 THEN Len(codegen.calls) = 3 /\ codegen.ret = "fallback"
                 ELSE codegen.ret = Returned(codegen.calls[Len(codegen.calls)])
          /\ codegen.slept \in {<<>>, <<2>>, <<2, 4>>}
          /\ codegen.pc \in {"call", "done"} =>
                 codegen.slept = Doubling(2, IF Len(codegen.calls) \in FailedCalls
                                                /\ codegen.pc = "call"
                                             THEN Len(codegen.calls)
                                             ELSE IF Len(codegen.calls) = 0 THEN 0
                                             ELSE Len(codegen.calls) - 1))
    /\ (codegen.pc = "call" ~> codegen.pc = "done")

\* C32 witness: two calls failed, the waits were 2 and 4, and the third call
\* returned the code
C32_Witness ==
    /\ codegen.pc = "done"
    /\ Len(codegen.calls) = 3
    /\ FailedCalls = {1, 2}
    /\ codegen.slept = <<2, 4>>
    /\ codegen.ret = "code_of_fence"


(* ---- C33: fallback code found by a later run --------------------------- *)
\* the slots of f whose code_generated checkpoint holds the fallback template
FallbackSlots(f) ==
    {i \in TerminalSlots(f, "step5") : Get(load_checkpoint(f[i].ckpt), "code").fallback}

\* every stored result of code generation the run found is fallback code
FoundFallback ==
    /\ FallbackSlots(startFs) # {}
    /\ TerminalSlots(startFs, "step5") = FallbackSlots(startFs)

\* C33: a later run that finds fallback code as the stored result of code
\* generation generates the extraction code again instead of skipping step 5.
C33_FallbackNeverAccepted ==
    [][(pc = "s5" /\ pc' = "s6" /\ runNo >= 2 /\ FoundFallback)
           => "step5" \in executed']_vars


(* ---- C34: the syntax-validation loop of step 7 ------------------------- *)
\* the compile attempts so far that raised SyntaxError
SyntaxFailures ==
    Cardinality({i \in 1..Len(convert.compiled) :
                     Syntax(convert.compiled[i]) = "syntax_error"})

\* C34: the loop makes at most 3 compile attempts; after the first syntax
\* failure exactly one local fix has been made, after the second exactly one
\* regeneration, the third raises; when the loop is left without raising, the
\* code saved and checkpointed is code that compiled.
C34_SyntaxLoopBounded ==
    /\ Len(convert.compiled) <= 3
    /\ convert.fixes = (IF SyntaxFailures >= 1 /\ convert.pc # "fix" THEN 1 ELSE 0)
    /\ convert.regenerations =
           (IF SyntaxFailures >= 2 /\ convert.pc # "regenerate" THEN 1 ELSE 0)
    /\ SyntaxFailures = 3 => convert.pc = "raised"
    /\ convert.pc \in {"save", "done"} =>
           /\ Syntax(convert.markdown_converter_code) = "valid"
           /\ convert.compiled[Len(convert.compiled)] = convert.markdown_converter_code
    /\ convert.file # NoConverterCode =>
           convert.file = convert.markdown_converter_code /\ Syntax(convert.file) = "valid"
    /\ convert.checkpoint # NoConverterCode =>
           convert.checkpoint = convert.file

\* C34 witness: the generated code and the fixed code had syntax errors, the
\* regenerated code compiled at the third attempt and was saved
C34_Witness ==
    /\ convert.pc = "done"
    /\ Len(convert.compiled) = 3
    /\ SyntaxFailures = 2
    /\ convert.fixes = 1 /\ convert.regenerations = 1
    /\ convert.compiled[1].lines = <<"ok", "fstring">>
    /\ convert.compiled[2].lines = <<"ok", "broken">>
    /\ convert.checkpoint = ConverterCode("regenerated", <<"ok">>, FALSE)


(* ---- C35: extraction accounting ---------------------------------------- *)
\* _execute_extraction_code went through its batch and returned its counts
BatchDone == loader.kind = "extraction" /\ loader.pc \in {"returned", "handled"}
                 /\ loader.ret = "dict"

\* C35: after _execute_extraction_code processed a batch without an interface
\* error, processed_count + failed_count is the number of input files, the
\* summary holds one entry per input file, and the number of distinct result
\* files written equals processed_count.
C35_ExtractionAccounting ==
    BatchDone =>
        /\ loader.processed + loader.failed = loader.total_files
        /\ Len(loader.results_summary) = loader.total_files
        /\ \A i, j \in 1..Len(loader.results_summary) :
               i # j => loader.results_summary[i].file # loader.results_summary[j].file
        /\ Cardinality(loader.files) = loader.processed


(* ---- C36: a resumed run that executes nothing -------------------------- *)
\* the last invocation was a resumed one, went through to its end and executed
\* no stage
ResumedIdleRun ==
    /\ pc = "idle" /\ runNo >= 1
    /\ resume
    /\ result = "success"
    /\ executed = {}

\* C36: a resumed run in which no stage executes any work creates no flow
\* directory: the flow directories under the output root are the same after
\* the run as before it.
C36_NoWorkNoNewSlot ==
    ResumedIdleRun => FlowIds(fs) = FlowIds(startFs)


(* ---- C37: recovery after a kill ---------------------------------------- *)
\* the running invocation is a resumed one that follows a killed one
Recovering == runNo >= 2 /\ resume /\ prev.result = "killed"

\* no step of the running invocation has had a non-success outcome
NoFaultInRun == faults = prev.faults

Writers(i) == {procs.writes[k].proc : k \in {j \in 1..Len(procs.writes) : procs.writes[j].flow_id = i}}

\* the position, in the history of the writes, of the last write into slot i
LastWrite(i) == Max({j \in 1..Len(procs.writes) : procs.writes[j].flow_id = i})

\* C38: no locking protects the output root. A process that is about to ask
\* for the next flow id can always do so, whatever the other process holds;
\* the id a process holds is the one past the directories it saw, so two
\* processes that saw the same directories, neither having created its own,
\* hold the same id; and the checkpoint a slot holds is the one written
\* last, so the checkpoint of the other process written before it is gone.
C38_UnprotectedOutputRoot ==
    /\ \A p \in Procs :
           (procs.pc[p] = "get_next_flow_id" /\ procs.stage[p] <= MaxStages)
               => ENABLED ProcGetNextFlowId(p)
    /\ \A p \in Procs :
           procs.flow_id[p] # 0 =>
               /\ procs.flow_id[p] \notin procs.listing[p]
               /\ procs.flow_id[p] = (IF procs.listing[p] = {} THEN 1
                                      ELSE Max(procs.listing[p]) + 1)
    /\ \A p, q \in Procs :
           (/\ procs.pc[p] = "get_flow_output_dir"
            /\ procs.pc[q] = "get_flow_output_dir"
            /\ procs.listing[p] = procs.listing[q])
               => procs.flow_id[p] = procs.flow_id[q]
    /\ \A i \in 1..Len(procs.root) :
           Writers(i) # {} =>
               /\ procs.root[i].ckpt.kind = "ok"
               /\ procs.root[i].ckpt.ts = LastWrite(i)
               /\ procs.root[i].ckpt.step =
                      TerminalIdentity(StageName(procs.writes[LastWrite(i)].stage))

\* both processes obtained the same id before either created the directory,
\* both saved their checkpoint in that slot, and the slot holds the later one
C38_Witness ==
    /\ procs.flow_id[1] # 0
    /\ procs.flow_id[1] = procs.flow_id[2]
    /\ procs.listing[1] = procs.listing[2]
    /\ Writers(procs.flow_id[1]) = Procs
    /\ Len(procs.writes) >= 2
    /\ procs.root[procs.flow_id[1]].ckpt.ts = LastWrite(procs.flow_id[1])
    /\ \E j \in 1..(LastWrite(procs.flow_id[1]) - 1) :
           /\ procs.writes[j].flow_id = procs.flow_id[1]
           /\ procs.writes[j].proc # procs.writes[LastWrite(procs.flow_id[1])].proc

====
